---------------------------- MODULE Spec2Model ----------------------------
(***************************************************************************)
(* A model of github.com/primecitizens/cli: the flag value peekers (VP),   *)
(* Flag.Decode, the POSIX/GNU argument parser, Cmd.ResolveTarget and       *)
(* Cmd.Exec with their hooks, and the completion command.                  *)
(*                                                                         *)
(* Strings are sequences of bytes; a byte is written as a one-character    *)
(* TLA+ string, except the two bytes "E1" "E2", which together encode one  *)
(* two-byte UTF-8 rune.                                                    *)
(***************************************************************************)
EXTENDS Integers, Sequences, FiniteSets, TLC

\* ------------------------------------------------------------------------
\* Bounds of the model
\* ------------------------------------------------------------------------

\* longest argument vector handed to the parser specification
MaxArgs == 2

\* longest argument vector handed to Cmd.Exec
MaxExecArgs == 3

\* number of Flag.Decode calls in one behaviour of the decode specification
MaxDecodes == 2

\* ------------------------------------------------------------------------
\* strings
\* ------------------------------------------------------------------------

\* the result of strings.Cut(s, sep) for a one-byte separator, from index k
RECURSIVE CutFrom(_, _, _)
CutFrom(s, sep, k) ==
    IF k > Len(s) THEN [before |-> s, after |-> <<>>, found |-> FALSE]
    ELSE IF s[k] = sep
         THEN [before |-> SubSeq(s, 1, k - 1),
               after  |-> SubSeq(s, k + 1, Len(s)),
               found  |-> TRUE]
         ELSE CutFrom(s, sep, k + 1)

Cut(s, sep) == CutFrom(s, sep, 1)

\* a strings.HasPrefix that finds no prefix
HasNoPrefix(s, c) == FALSE

HasPrefix(s, c) == Len(s) >= 1 /\ s[1] = c

\* s[k:] of Go, k counted from 0
Drop(s, k) == SubSeq(s, k + 1, Len(s))

\* width of the rune utf8.DecodeRuneInString finds at the head of s:
\* the lead byte "E1" followed by "E2" is a two-byte rune, every other byte
\* (also a lone lead or continuation byte, decoded as RuneError) has width 1
RuneWidth(s) ==
    IF Len(s) >= 2 /\ s[1] = "E1" /\ s[2] = "E2" THEN 2
    ELSE IF Len(s) >= 1 THEN 1 ELSE 0

\* width of the rune utf8.DecodeLastRuneInString finds at the end of s
LastRuneWidth(s) ==
    IF Len(s) >= 2 /\ s[Len(s) - 1] = "E1" /\ s[Len(s)] = "E2" THEN 2
    ELSE IF Len(s) >= 1 THEN 1 ELSE 0

\* IsShorthand: one rune, and not a hyphen
IsShorthand(s) ==
    IF Len(s) = 0 THEN FALSE
    ELSE IF s[1] \notin {"E1", "E2"} THEN Len(s) = 1 /\ s[1] # "-"
    ELSE Len(s) = RuneWidth(s)

\* With(v, LAMBDA x : e) is e with x standing for v: the result of a call is
\* given a name and used in what follows the call
With(v, Do(_)) == Do(v)

\* ------------------------------------------------------------------------
\* errors: every error value is a record of the same shape
\* ------------------------------------------------------------------------

\* at is the At / NameAt field, valueAt the ValueAt field (-1 when absent)
Err(kind, name, value, at, valueAt) ==
    [kind |-> kind, name |-> name, value |-> value, at |-> at, valueAt |-> valueAt]

Nil == Err("nil", <<>>, <<>>, -1, -1)

ErrSyntax == Err("ErrSyntax", <<>>, <<>>, -1, -1)
ErrRange == Err("ErrRange", <<>>, <<>>, -1, -1)
ErrInvalidValue(arg) == Err("ErrInvalidValue", <<>>, arg, -1, -1)
ErrFlagSetAtMostOnce == Err("ErrFlagSetAtMostOnce", <<>>, <<>>, -1, -1)
ErrFlagUndefined(name, at) == Err("ErrFlagUndefined", name, <<>>, at, -1)
ErrFlagValueInvalid(name, value, at, valueAt) ==
    Err("ErrFlagValueInvalid", name, value, at, valueAt)
ErrFlagValueMissing(name, at) == Err("ErrFlagValueMissing", name, <<>>, at, -1)
ErrAmbiguousArgs(name, value, at) == Err("ErrAmbiguousArgs", name, value, at, -1)
ErrShorthandOfExplicitFlagInMiddle(name, value) ==
    Err("ErrShorthandOfExplicitFlagInMiddle", name, value, -1, -1)

\* ------------------------------------------------------------------------
\* strconv.ParseInt(arg, 0, bits)
\* ------------------------------------------------------------------------

DigitVal(c) ==
    CASE c = "0" -> 0 [] c = "1" -> 1 [] c = "2" -> 2 [] c = "3" -> 3
      [] c = "4" -> 4 [] c = "5" -> 5 [] c = "6" -> 6 [] c = "7" -> 7
      [] c = "8" -> 8 [] c = "9" -> 9 [] c = "a" -> 10 [] c = "b" -> 11
      [] c = "c" -> 12 [] c = "d" -> 13 [] c = "e" -> 14 [] c = "f" -> 15
      [] OTHER -> 99

\* the digits of s from position k on, in the given base; -1 for a byte that
\* is not a digit of the base
RECURSIVE Digits(_, _, _, _)
Digits(s, base, k, acc) ==
    IF k > Len(s) THEN acc
    ELSE With(DigitVal(s[k]), LAMBDA d :
           IF d >= base THEN -1 ELSE Digits(s, base, k + 1, acc * base + d))

Pow2(n) == 2 ^ n

\* from this width on no text of the model is out of range: the texts are
\* short, their values far below 2^31
WideBits == 31

ParseInt(arg, bits) ==
    IF Len(arg) = 0 THEN [err |-> ErrSyntax, v |-> 0]
    ELSE
      With(IF arg[1] \in {"+", "-"} THEN Tail(arg) ELSE arg, LAMBDA body :
        IF Len(body) = 0 THEN [err |-> ErrSyntax, v |-> 0]
        ELSE
          With(Len(body) >= 3 /\ body[1] = "0" /\ body[2] \in {"b", "o", "x"},
               LAMBDA pfx :
            With(Digits(IF body[1] # "0" THEN body
                        ELSE IF pfx THEN Drop(body, 2) ELSE Drop(body, 1),
                        IF body[1] # "0" THEN 10
                        ELSE IF pfx /\ body[2] = "b" THEN 2
                        ELSE IF pfx /\ body[2] = "x" THEN 16
                        ELSE 8,
                        1, 0),
                 LAMBDA n :
              IF n < 0 THEN [err |-> ErrSyntax, v |-> 0]
              ELSE IF bits < WideBits
                      /\ \/ arg[1] # "-" /\ n >= Pow2(bits - 1)
                         \/ arg[1] = "-" /\ n > Pow2(bits - 1)
                   THEN [err |-> ErrRange, v |-> 0]
                   ELSE [err |-> Nil, v |-> IF arg[1] = "-" THEN 0 - n ELSE n])))

\* width in bits of the integer cells of the model (int8)
IntBits == 8

\* conversion of an integer to the cell type: it wraps around
Wrap(x) == ((x + Pow2(IntBits - 1)) % Pow2(IntBits)) - Pow2(IntBits - 1)

\* ------------------------------------------------------------------------
\* value peekers: ParseValue of each VP of the model
\*   the result is [err, out]: the returned error and the cell afterwards
\* ------------------------------------------------------------------------

BoolTrue == {<<"t","r","u","e">>, <<"y","e","s">>, <<"y">>, <<"o","n">>, <<"1">>}
BoolFalse == {<<"f","a","l","s","e">>, <<"n","o">>, <<"n">>, <<"o","f","f">>, <<"0">>}

\* VPString.ParseValue
VPStringParse(arg, old, set) ==
    [err |-> Nil, out |-> IF set THEN arg ELSE old]

\* VPInt[int8].ParseValue
VPIntParse(arg, old, set) ==
    With(ParseInt(arg, IntBits), LAMBDA r :
      IF r.err # Nil THEN [err |-> r.err, out |-> old]
      ELSE [err |-> Nil, out |-> IF set THEN r.v ELSE old])

\* VPBool.ParseValue
VPBoolParse(arg, old, set) ==
    IF arg \in BoolTrue THEN [err |-> Nil, out |-> IF set THEN TRUE ELSE old]
    ELSE IF arg \in BoolFalse THEN [err |-> Nil, out |-> IF set THEN FALSE ELSE old]
    ELSE [err |-> ErrInvalidValue(arg), out |-> old]

\* VPSum[int8, VPInt].ParseValue: the inner VP parses into a temporary
VPSumParse(arg, old, set) ==
    With(VPIntParse(arg, 0, set), LAMBDA r :
      IF r.err # Nil THEN [err |-> r.err, out |-> old]
      ELSE [err |-> Nil, out |-> IF set THEN Wrap(old + r.out) ELSE old])

\* a VPSlice that appends the element whether or not set is true
VPSliceParseAppends(arg, old, set) ==
    With(VPIntParse(arg, 0, TRUE), LAMBDA r :
      IF r.err # Nil THEN [err |-> r.err, out |-> old]
      ELSE [err |-> Nil, out |-> Append(old, r.out)])

\* VPSlice[int8, VPInt].ParseValue
VPSliceParse(arg, old, set) ==
    IF set
    THEN With(VPIntParse(arg, 0, TRUE), LAMBDA r :
           IF r.err # Nil THEN [err |-> r.err, out |-> old]
           ELSE [err |-> Nil, out |-> Append(old, r.out)])
    ELSE [err |-> VPIntParse(arg, 0, set).err, out |-> old]

\* VPMap[string, int8, VPString, VPInt].ParseValue; a map is a function
\* from keys to values
VPMapParse(arg, old, set) ==
    With(Cut(arg, "="), LAMBDA c :
      IF ~c.found THEN [err |-> ErrInvalidValue(arg), out |-> old]
      ELSE
        With(VPStringParse(c.before, <<>>, set), LAMBDA k :
          IF k.err # Nil THEN [err |-> k.err, out |-> old]
          ELSE
            With(VPIntParse(c.after,
                            IF set /\ k.out \in DOMAIN old THEN old[k.out] ELSE 0,
                            set),
                 LAMBDA v :
              IF v.err # Nil \/ ~set THEN [err |-> v.err, out |-> old]
              ELSE [err |-> Nil,
                    out |-> [x \in (DOMAIN old) \cup {k.out} |->
                               IF x = k.out THEN v.out ELSE old[x]]])))

\* VPPointer[int8, VPInt].ParseValue; a pointer is <<>> (nil) or <<v>>
VPPointerParse(arg, old, set) ==
    IF set
    THEN IF old # <<>>
         THEN With(VPIntParse(arg, old[1], TRUE), LAMBDA r :
                [err |-> r.err, out |-> <<r.out>>])
         ELSE With(VPIntParse(arg, 0, TRUE), LAMBDA r :
                IF r.err # Nil THEN [err |-> r.err, out |-> old]
                ELSE [err |-> Nil, out |-> <<r.out>>])
    ELSE [err |-> VPIntParse(arg, 0, FALSE).err, out |-> old]

\* VPReflectInt.ParseValue on an int8 field: validation is done at 64 bits,
\* the set at the width of the field
VPReflectIntParse(arg, old, set) ==
    IF ~set THEN [err |-> ParseInt(arg, 64).err, out |-> old]
    ELSE With(ParseInt(arg, IntBits), LAMBDA r :
           IF r.err # Nil THEN [err |-> r.err, out |-> old]
           ELSE [err |-> Nil, out |-> r.v])

\* VPReflectBool.ParseValue
VPReflectBoolParse(arg, old, set) ==
    With(VPBoolParse(arg, FALSE, set), LAMBDA r :
      IF r.err # Nil \/ ~set THEN [err |-> r.err, out |-> old]
      ELSE [err |-> Nil, out |-> r.out])

\* VPReflectString.ParseValue
VPReflectStringParse(arg, old, set) ==
    With(VPStringParse(arg, <<>>, set), LAMBDA r :
      IF r.err # Nil \/ ~set THEN [err |-> r.err, out |-> old]
      ELSE [err |-> Nil, out |-> r.out])

\* VPReflectSum[VPReflectInt].ParseValue on an int8 field
VPReflectSumParse(arg, old, set) ==
    With(VPReflectIntParse(arg, old, set), LAMBDA r :
      IF r.err # Nil \/ ~set THEN [err |-> r.err, out |-> r.out]
      ELSE [err |-> Nil, out |-> Wrap(old + r.out)])

\* VPReflectSlice[VPReflectInt].ParseValue on a []int8 field: with set=true
\* the slice is grown by one, the element parsed in place, the length
\* restored when the element fails to parse, and nil returned either way
VPReflectSliceParse(arg, old, set) ==
    IF ~set THEN [err |-> VPReflectIntParse(arg, 0, FALSE).err, out |-> old]
    ELSE With(VPReflectIntParse(arg, 0, TRUE), LAMBDA r :
           IF r.err # Nil THEN [err |-> Nil, out |-> old]
           ELSE [err |-> Nil, out |-> Append(old, r.out)])

VPKinds == {"string", "int", "bool", "sum", "slice", "map", "ptr",
            "rint", "rbool", "rstring", "rsum", "rslice"}

\* VP.ParseValue(opts, arg, out, set), dispatched on the VP
ParseValue(vp, arg, old, set) ==
    CASE vp = "string"  -> VPStringParse(arg, old, set)
      [] vp = "int"     -> VPIntParse(arg, old, set)
      [] vp = "bool"    -> VPBoolParse(arg, old, set)
      [] vp = "sum"     -> VPSumParse(arg, old, set)
      [] vp = "slice"   -> VPSliceParse(arg, old, set)
      [] vp = "map"     -> VPMapParse(arg, old, set)
      [] vp = "ptr"     -> VPPointerParse(arg, old, set)
      [] vp = "rint"    -> VPReflectIntParse(arg, old, set)
      [] vp = "rbool"   -> VPReflectBoolParse(arg, old, set)
      [] vp = "rstring" -> VPReflectStringParse(arg, old, set)
      [] vp = "rsum"    -> VPReflectSumParse(arg, old, set)
      [] vp = "rslice"  -> VPReflectSliceParse(arg, old, set)

\* the zero value of the cell of each VP
ZeroValue(vp) ==
    CASE vp \in {"int", "sum", "rint", "rsum"} -> 0
      [] vp \in {"bool", "rbool"} -> FALSE
      [] OTHER -> <<>>

\* implyFromVPType: the text implied by the flag name alone
ImplyFromVPType(vp) ==
    CASE vp \in {"sum", "rsum"} -> [v |-> <<"1">>, ok |-> TRUE]
      [] vp \in {"bool", "rbool"} -> [v |-> <<"t","r","u","e">>, ok |-> TRUE]
      [] OTHER -> [v |-> <<>>, ok |-> FALSE]

\* ------------------------------------------------------------------------
\* flags
\* ------------------------------------------------------------------------

\* The flags of the model.  impl is the Flag implementation ("base" for
\* FlagBase / FlagBaseV, "reflect" for FlagReflect), vp its value peeker,
\* once the FlagStateSetAtMostOnce bit, names the names it is registered
\* under, def the FlagInfo.DefaultValue of its indexer entry.
FlagDefs ==
    [nu |-> [impl |-> "base", vp |-> "sum", once |-> FALSE,
             names |-> << <<"n","u">>, <<"a">> >>, def |-> <<>>],
     bo |-> [impl |-> "base", vp |-> "bool", once |-> FALSE,
             names |-> << <<"b","o">>, <<"b">> >>, def |-> <<>>],
     st |-> [impl |-> "base", vp |-> "string", once |-> FALSE,
             names |-> << <<"s","t">>, <<"s">> >>, def |-> <<"d">>],
     in |-> [impl |-> "base", vp |-> "int", once |-> TRUE,
             names |-> << <<"i","n">>, <<"i">> >>, def |-> <<"7">>],
     mb |-> [impl |-> "base", vp |-> "bool", once |-> FALSE,
             names |-> << <<"m","b">>, <<"E1","E2">> >>, def |-> <<>>],
     he |-> [impl |-> "base", vp |-> "bool", once |-> FALSE,
             names |-> << <<"h","e","l","p">>, <<"h">> >>, def |-> <<>>],
     sl |-> [impl |-> "base", vp |-> "slice", once |-> FALSE,
             names |-> << <<"s","l">> >>, def |-> <<"[","1",","," ","2","]">>],
     ma |-> [impl |-> "base", vp |-> "map", once |-> FALSE,
             names |-> << <<"m","a">> >>, def |-> <<>>],
     pt |-> [impl |-> "base", vp |-> "ptr", once |-> TRUE,
             names |-> << <<"p","t">> >>, def |-> <<>>],
     ri |-> [impl |-> "reflect", vp |-> "rint", once |-> TRUE,
             names |-> << <<"r","i">> >>, def |-> <<>>],
     rb |-> [impl |-> "reflect", vp |-> "rbool", once |-> FALSE,
             names |-> << <<"r","b">> >>, def |-> <<>>],
     rt |-> [impl |-> "reflect", vp |-> "rstring", once |-> TRUE,
             names |-> << <<"r","t">> >>, def |-> <<>>],
     rs |-> [impl |-> "reflect", vp |-> "rsum", once |-> FALSE,
             names |-> << <<"r","s">> >>, def |-> <<>>],
     rl |-> [impl |-> "reflect", vp |-> "rslice", once |-> FALSE,
             names |-> << <<"r","l">> >>, def |-> <<>>]]

FlagIds == DOMAIN FlagDefs

Range(q) == {q[k] : k \in DOMAIN q}

\* the storage cells and value-changed bits before anything was decoded
InitialCells == [val |-> [f \in FlagIds |-> ZeroValue(FlagDefs[f].vp)],
                 chg |-> [f \in FlagIds |-> FALSE]]

\* Flag.ImplyValue
ImplyValue(f) == ImplyFromVPType(FlagDefs[f].vp)

\* The operators below thread the flag storage as st = [val, chg, dec, seen,
\* at, errAt, skipAt]: the storage cells, the value-changed bits, and a history of
\* the calls since the operation began, which is not part of the program's
\* memory: dec is the set of flags decoded with set=true, seen the set of
\* flags decoded at all, at the set of indices i for which the loop of
\* ParseFlagsLowLevel has looked at args[i], errAt the set of indices that
\* HandleParseError was called with, skipAt the set of indices the loop
\* passed over because the flag before took the arg as its value.
Enter(c) == [val |-> c.val, chg |-> c.chg, dec |-> {}, seen |-> {},
             at |-> {}, errAt |-> {}, skipAt |-> {}]

Storage(st) == [val |-> st.val, chg |-> st.chg]

\* FlagBase.Decode / FlagBaseV.Decode
FlagBaseDecode(f, st, arg, set) ==
    IF FlagDefs[f].once /\ st.chg[f] /\ set
    THEN [err |-> ErrFlagSetAtMostOnce, st |-> st]
    ELSE With(ParseValue(FlagDefs[f].vp, arg, st.val[f], set), LAMBDA r :
           IF r.err # Nil
           THEN [err |-> r.err, st |-> [st EXCEPT !.val[f] = r.out]]
           ELSE [err |-> Nil,
                 st  |-> [st EXCEPT !.val[f] = r.out, !.chg[f] = @ \/ set]])

\* FlagReflect.Decode
FlagReflectDecode(f, st, arg, set) ==
    With(ParseValue(FlagDefs[f].vp, arg, st.val[f], set), LAMBDA r :
      IF r.err # Nil
      THEN [err |-> r.err, st |-> [st EXCEPT !.val[f] = r.out]]
      ELSE [err |-> Nil,
            st  |-> [st EXCEPT !.val[f] = r.out, !.chg[f] = @ \/ set]])

\* Flag.Decode(opts, name, arg, set)
Decode(f, st, arg, set) ==
    With(IF FlagDefs[f].impl = "reflect"
         THEN FlagReflectDecode(f, st, arg, set)
         ELSE FlagBaseDecode(f, st, arg, set),
         LAMBDA d :
      [err |-> d.err,
       st  |-> [d.st EXCEPT !.dec = IF set THEN @ \cup {f} ELSE @,
                            !.seen = @ \cup {f}]])

\* ------------------------------------------------------------------------
\* flag finders: an indexer is the sequence of its flags in registration
\* order, a finder the sequence of indexers it consults
\* ------------------------------------------------------------------------

\* MapIndexer.FindFlag
IndexerFindFlag(ix, name) ==
    With({k \in DOMAIN ix : name \in Range(FlagDefs[ix[k]].names)}, LAMBDA hits :
      IF hits = {} THEN [ok |-> FALSE, f |-> "none"]
      ELSE [ok |-> TRUE, f |-> ix[CHOOSE k \in hits : \A j \in hits : k <= j]])

\* FlagFinder.FindFlag of a finder that consults its indexers in order
RECURSIVE FinderFindFlag(_, _)
FinderFindFlag(finder, name) ==
    IF finder = <<>> THEN [ok |-> FALSE, f |-> "none"]
    ELSE With(IndexerFindFlag(Head(finder), name), LAMBDA r :
           IF r.ok THEN r ELSE FinderFindFlag(Tail(finder), name))

\* ------------------------------------------------------------------------
\* the argument parser
\*   An index into args is counted from 0 as in the source; args[i] of the
\*   source is args[i + 1] here.
\*   ParseOptions is [nil, helpNil, helpArgs, handler]: nil for a nil
\*   *ParseOptions, helpNil for HelpArgs = nil, handler for what
\*   HandleParseError does ("none": not configured, "ignore": returns nil,
\*   "reraise": returns the error it was given).
\* ------------------------------------------------------------------------

Dash == <<"-", "-">>

DefaultHelpArgs == {<<"-","-","h","e","l","p">>, <<"-","h">>, <<"h","e","l","p">>}

\* ParseOptions.IsHelpArg
IsHelpArg(opts, x) ==
    IF opts.nil \/ opts.helpNil THEN x \in DefaultHelpArgs
    ELSE x \in Range(opts.helpArgs)

\* a nil *ParseOptions
NilOpts == [nil |-> TRUE, helpNil |-> TRUE, helpArgs |-> <<>>, handler |-> "none"]

\* the result of parseLongFlag and parseShortFlags
FlagResult(shiftNext, err, st) ==
    [shiftNext |-> shiftNext, err |-> err, st |-> st, panic |-> FALSE]

FlagPanic(st) ==
    [shiftNext |-> FALSE, err |-> Nil, st |-> st, panic |-> TRUE]

\* the part of parseLongFlag and of the last shorthand of parseShortFlags
\* after the label TryImplied
TryImplied(f, name, args, i, set, st, long) ==
    With(ImplyValue(f), LAMBDA iv :
      IF iv.ok
      THEN With(Decode(f, st, iv.v, set), LAMBDA d :
             IF d.err # Nil
             THEN FlagResult(FALSE, ErrFlagValueInvalid(name, iv.v, i, -1), d.st)
             ELSE FlagResult(FALSE, Nil, d.st))
      ELSE IF i = Len(args) - 1 \/ args[i + 2] = Dash
           THEN FlagResult(FALSE, ErrFlagValueMissing(name, i), st)
           ELSE FlagResult(FALSE, ErrFlagValueInvalid(name, args[i + 2], i, i + 1), st))

\* the `--foo` / last-shorthand case without `=value`: peek at the next arg
NextArgOrImplied(f, name, args, i, set, st, long) ==
    IF i = Len(args) - 1 \/ args[i + 2] = Dash
    THEN TryImplied(f, name, args, i, set, st, long)
    ELSE
      \* set = false for checking
      With(Decode(f, st, args[i + 2], FALSE), LAMBDA chk :
        IF chk.err = Nil
        THEN IF HasPrefix(args[i + 2], "-") /\ ImplyValue(f).ok
             THEN FlagResult(TRUE, ErrAmbiguousArgs(name, args[i + 2], i), chk.st)
             ELSE IF set
                  THEN With(Decode(f, chk.st, args[i + 2], TRUE), LAMBDA d :
                         IF long THEN FlagResult(TRUE, d.err, d.st)
                         ELSE IF d.err # Nil
                              THEN FlagResult(TRUE,
                                     ErrFlagValueInvalid(name, args[i + 2], i, i + 1),
                                     d.st)
                              ELSE FlagResult(TRUE, Nil, d.st))
                  ELSE FlagResult(TRUE, Nil, chk.st)
        ELSE TryImplied(f, name, args, i, set, chk.st, long))

\* parseLongFlag(flags, opts, args, i, set)
parseLongFlag(finder, args, i, set, st) ==
    With(Cut(Drop(args[i + 1], 2), "="), LAMBDA c :
      IF Len(c.before) = 0 THEN FlagPanic(st)
      ELSE
        With(FinderFindFlag(finder, c.before), LAMBDA found :
          IF ~found.ok THEN FlagResult(FALSE, ErrFlagUndefined(c.before, i), st)
          ELSE IF c.found
               THEN With(Decode(found.f, st, c.after, set), LAMBDA d :
                      IF d.err # Nil
                      THEN FlagResult(FALSE,
                             ErrFlagValueInvalid(c.before, c.after, i, i), d.st)
                      ELSE FlagResult(FALSE, Nil, d.st))
               ELSE NextArgOrImplied(found.f, c.before, args, i, set, st, TRUE)))

\* the loop of parseShortFlags over the cluster s, from byte offset on
RECURSIVE shortFlagsFrom(_, _, _, _, _, _, _, _)
shortFlagsFrom(finder, args, i, set, st, s, c, offset) ==
    IF offset >= Len(s) THEN FlagResult(FALSE, Nil, st)
    ELSE
      LET width == RuneWidth(Drop(s, offset))
          name  == SubSeq(s, offset + 1, offset + width)
          next  == offset + width
      IN
      With(FinderFindFlag(finder, name), LAMBDA found :
        IF ~found.ok THEN FlagResult(FALSE, ErrFlagUndefined(name, i), st)
        ELSE IF next = Len(s)
        THEN \* reaching the last shorthand
             IF c.found
             THEN With(Decode(found.f, st, c.after, set), LAMBDA d :
                    IF d.err # Nil
                    THEN FlagResult(FALSE,
                           ErrFlagValueInvalid(name, c.after, i, i), d.st)
                    ELSE FlagResult(FALSE, Nil, d.st))
             ELSE NextArgOrImplied(found.f, name, args, i, set, st, FALSE)
        ELSE \* not the last shorthand
             With(ImplyValue(found.f), LAMBDA iv :
               IF iv.ok
               THEN With(Decode(found.f, st, iv.v, set), LAMBDA d :
                      IF d.err # Nil THEN FlagResult(FALSE, d.err, d.st)
                      ELSE shortFlagsFrom(finder, args, i, set, d.st, s, c, next))
               ELSE IF c.found
                    THEN FlagResult(FALSE,
                           ErrShorthandOfExplicitFlagInMiddle(name, c.after), st)
                    ELSE With(Decode(found.f, st, Drop(s, next), set), LAMBDA d :
                           IF d.err # Nil
                           THEN FlagResult(FALSE,
                                  ErrFlagValueInvalid(<<>>, Drop(s, next), i, i),
                                  d.st)
                           ELSE FlagResult(FALSE, Nil, d.st))))

\* a parseShortFlags that drops the value after `=`
parseShortFlagsNoValue(finder, args, i, set, st) ==
    shortFlagsFrom(finder, args, i, set, st, Cut(Drop(args[i + 1], 1), "=").before,
                   [before |-> <<>>, after |-> <<>>, found |-> FALSE], 0)

\* parseShortFlags(flags, opts, args, i, set)
parseShortFlags(finder, args, i, set, st) ==
    With(Cut(Drop(args[i + 1], 1), "="), LAMBDA c :
      shortFlagsFrom(finder, args, i, set, st, c.before, c, 0))

\* the result of ParseFlagsLowLevel
ParseResult(nParsed, posDash, foundPosArg, posArgs, helpArgAt, err, st, panic) ==
    [nParsed |-> nParsed, posDash |-> posDash, foundPosArg |-> foundPosArg,
     posArgs |-> posArgs, helpArgAt |-> helpArgAt, err |-> err, st |-> st,
     panic |-> panic]

\* the loop of ParseFlagsLowLevel comes to index i: arg := args[i] when i is
\* an index of args
Visit(st, args, i) == IF i < Len(args) THEN [st EXCEPT !.at = @ \cup {i}] ELSE st

\* opts.HandleParseError(opts, args, i, err) is called when there is one
Handled(st, opts, i) ==
    IF ~opts.nil /\ opts.handler # "none" THEN [st EXCEPT !.errAt = @ \cup {i}]
    ELSE st

\* `if shiftNext { i++ }` after the flag at args[i]: the loop passes over
\* args[i+1], which the flag took as its value
Shift(st, shiftNext, i) == IF shiftNext THEN [st EXCEPT !.skipAt = @ \cup {i + 1}] ELSE st

\* the loop of ParseFlagsLowLevel from index i on
RECURSIVE parseFrom(_, _, _, _, _, _, _, _, _, _, _)
parseFrom(args, finder, opts, offset, appendPosArgs, stopAtFirstPosArg, setFlagValue, i, foundPosArg, posArgs, st) ==
    IF i >= Len(args)
    THEN ParseResult(i - offset, -1, foundPosArg, posArgs, -1, Nil, st, FALSE)
    ELSE
      LET arg == args[i + 1]
      IN
      IF Len(arg) = 0 \/ arg[1] # "-" \/ Len(arg) = 1
      THEN LET pos == IF appendPosArgs THEN Append(posArgs, arg) ELSE posArgs
           IN  With(IsHelpArg(opts, arg), LAMBDA isHelpArg :
                 IF isHelpArg \/ stopAtFirstPosArg
                 THEN ParseResult(i - offset, -1, TRUE, pos,
                                  IF isHelpArg THEN i ELSE -1, Nil, st, FALSE)
                 ELSE parseFrom(args, finder, opts, offset, appendPosArgs,
                                stopAtFirstPosArg, setFlagValue, i + 1, TRUE, pos,
                                Visit(st, args, i + 1)))
      ELSE IF arg[2] = "-" /\ Len(arg) = 2
      THEN ParseResult(Len(args), i, foundPosArg, posArgs, -1, Nil, st, FALSE)
      ELSE
        With(IsHelpArg(opts, arg), LAMBDA isHelpArg :
          IF isHelpArg /\ ~FinderFindFlag(finder, Drop(arg, IF arg[2] = "-" THEN 2 ELSE 1)).ok
          THEN \* the help flag is a pseudo flag
               ParseResult(i + 1 - offset, -1, foundPosArg, posArgs, i, Nil, st, FALSE)
          ELSE
            With(IF arg[2] = "-"
                 THEN parseLongFlag(finder, args, i, setFlagValue, st)
                 ELSE parseShortFlags(finder, args, i, setFlagValue, st),
                 LAMBDA r :
              IF isHelpArg
              THEN ParseResult(i + 1 - offset, -1, foundPosArg, posArgs, i,
                               r.err, r.st, r.panic)
              ELSE IF r.panic
              THEN ParseResult(i + 1 - offset, -1, foundPosArg, posArgs, -1,
                               Nil, r.st, TRUE)
              ELSE IF r.err # Nil /\ (opts.nil \/ opts.handler # "ignore")
              THEN ParseResult(i + 1 - offset, -1, foundPosArg, posArgs, -1,
                               r.err, Handled(r.st, opts, i), FALSE)
              ELSE parseFrom(args, finder, opts, offset, appendPosArgs,
                             stopAtFirstPosArg, setFlagValue,
                             IF r.shiftNext THEN i + 2 ELSE i + 1,
                             foundPosArg, posArgs,
                             Visit(Shift(IF r.err # Nil THEN Handled(r.st, opts, i)
                                         ELSE r.st, r.shiftNext, i),
                                   args, IF r.shiftNext THEN i + 2 ELSE i + 1))))

\* ParseFlagsLowLevel(args, flags, opts, offset, appendPosArgs,
\*                    stopAtFirstPosArg, setFlagValue, posArgsBuf)
ParseFlagsLowLevel(args, finder, opts, offset, appendPosArgs, stopAtFirstPosArg, setFlagValue, posArgsBuf, st) ==
    parseFrom(args, finder, opts, offset, appendPosArgs, stopAtFirstPosArg,
              setFlagValue, offset, FALSE, posArgsBuf, Visit(st, args, offset))

\* ParseFlags(args, flags, opts): posArgs, dashArgs, err
ParseFlags(args, finder, opts, st) ==
    With(ParseFlagsLowLevel(args, finder, opts, 0, TRUE, FALSE, TRUE, <<>>, st),
         LAMBDA r :
      [posArgs  |-> r.posArgs,
       dashArgs |-> IF r.posDash >= 0 THEN Drop(args, r.posDash + 1) ELSE <<>>,
       err |-> r.err, st |-> r.st, panic |-> r.panic])

\* ------------------------------------------------------------------------
\* flag rules
\*   A rule is [type, keys]; the Inspector handed to it is the Route, that
\*   is a finder and the flag storage.
\* ------------------------------------------------------------------------

NoRule == [type |-> "nil", keys |-> <<>>]

AllOf(keys) == [type |-> "AllOf", keys |-> keys]

AllOrNone(keys) == [type |-> "AllOrNone", keys |-> keys]

OneOf(keys) == [type |-> "OneOf", keys |-> keys]

AnyOf(keys) == [type |-> "AnyOf", keys |-> keys]

DependOn(ifX, thenY, elseZ) ==
    [type |-> "DependOn", If |-> ifX, Then |-> thenY, Else |-> elseZ]

MultiRule(rules) == [type |-> "MultiRule", rules |-> rules]

NoViolation == [ok |-> FALSE, key |-> <<>>, reason |-> "none", panic |-> FALSE]

Violation(key, reason) == [ok |-> TRUE, key |-> key, reason |-> reason, panic |-> FALSE]

RulePanic == [ok |-> FALSE, key |-> <<>>, reason |-> "none", panic |-> TRUE]

\* Route.CheckFlagValueChanged(name): it panics when no flag has the name
CheckFlagValueChanged(finder, st, name) ==
    With(FinderFindFlag(finder, name), LAMBDA r :
      [panic |-> ~r.ok, changed |-> r.ok /\ st.chg[r.f]])

\* the first loop of RuleAllOf.NthEx, from key j on (keys counted from 1)
RECURSIVE allOfScan(_, _, _, _, _, _, _)
allOfScan(keys, finder, st, j, someSet, someNotSet, idxFirstNotSet) ==
    IF j > Len(keys)
    THEN [panic |-> FALSE, someSet |-> someSet, someNotSet |-> someNotSet,
          idxFirstNotSet |-> idxFirstNotSet]
    ELSE
      With(CheckFlagValueChanged(finder, st, keys[j]), LAMBDA c :
        IF c.panic
        THEN [panic |-> TRUE, someSet |-> someSet, someNotSet |-> someNotSet,
              idxFirstNotSet |-> idxFirstNotSet]
        ELSE IF c.changed
        THEN IF someNotSet
             THEN [panic |-> FALSE, someSet |-> TRUE, someNotSet |-> TRUE,
                   idxFirstNotSet |-> idxFirstNotSet]
             ELSE allOfScan(keys, finder, st, j + 1, TRUE, someNotSet,
                            idxFirstNotSet)
        ELSE LET idx == IF someNotSet THEN idxFirstNotSet ELSE j
             IN  IF someSet
                 THEN [panic |-> FALSE, someSet |-> TRUE, someNotSet |-> TRUE,
                       idxFirstNotSet |-> idx]
                 ELSE allOfScan(keys, finder, st, j + 1, someSet, TRUE, idx))

\* the second loop of RuleAllOf.NthEx: the i-th key that is not set
RECURSIVE allOfPick(_, _, _, _, _, _, _)
allOfPick(keys, finder, st, j, cur, i, someSet) ==
    IF j > Len(keys) THEN NoViolation
    ELSE
      With(CheckFlagValueChanged(finder, st, keys[j]), LAMBDA c :
        IF c.panic THEN RulePanic
        ELSE IF c.changed
        THEN allOfPick(keys, finder, st, j + 1, cur, i, someSet)
        ELSE IF cur = i
        THEN Violation(keys[j], IF someSet THEN "PartialAllOf" ELSE "EmptyAllOf")
        ELSE allOfPick(keys, finder, st, j + 1, cur + 1, i, someSet))

\* RuleAllOf.NthEx(f, i)
RuleAllOfNthEx(keys, finder, st, i) ==
    IF i < 0 THEN NoViolation
    ELSE
      With(allOfScan(keys, finder, st, 1, FALSE, FALSE, 0), LAMBDA scan :
        IF scan.panic THEN RulePanic
        ELSE IF scan.someNotSet
        THEN allOfPick(keys, finder, st, scan.idxFirstNotSet, 0, i, scan.someSet)
        ELSE NoViolation)

\* the first loop of RuleAllOrNone.NthEx, from key j on
RECURSIVE allOrNoneScan(_, _, _, _, _, _, _)
allOrNoneScan(keys, finder, st, j, someSet, someNotSet, idxFirstNotSet) ==
    IF j > Len(keys)
    THEN [panic |-> FALSE, someSet |-> someSet, someNotSet |-> someNotSet,
          idxFirstNotSet |-> idxFirstNotSet]
    ELSE
      With(CheckFlagValueChanged(finder, st, keys[j]), LAMBDA c :
        IF c.panic
        THEN [panic |-> TRUE, someSet |-> someSet, someNotSet |-> someNotSet,
              idxFirstNotSet |-> idxFirstNotSet]
        ELSE IF c.changed
        THEN IF someNotSet
             THEN [panic |-> FALSE, someSet |-> TRUE, someNotSet |-> TRUE,
                   idxFirstNotSet |-> idxFirstNotSet]
             ELSE allOrNoneScan(keys, finder, st, j + 1, TRUE, someNotSet,
                                idxFirstNotSet)
        ELSE IF ~someNotSet
        THEN IF someSet
             THEN [panic |-> FALSE, someSet |-> TRUE, someNotSet |-> TRUE,
                   idxFirstNotSet |-> j]
             ELSE allOrNoneScan(keys, finder, st, j + 1, someSet, TRUE, j)
        ELSE allOrNoneScan(keys, finder, st, j + 1, someSet, someNotSet,
                           idxFirstNotSet))

\* the second loop of RuleAllOrNone.NthEx: the i-th key that is not set
RECURSIVE allOrNonePick(_, _, _, _, _, _)
allOrNonePick(keys, finder, st, j, cur, i) ==
    IF j > Len(keys) THEN NoViolation
    ELSE
      With(CheckFlagValueChanged(finder, st, keys[j]), LAMBDA c :
        IF c.panic THEN RulePanic
        ELSE IF c.changed THEN allOrNonePick(keys, finder, st, j + 1, cur, i)
        ELSE IF cur = i THEN Violation(keys[j], "PartialAllOrNone")
        ELSE allOrNonePick(keys, finder, st, j + 1, cur + 1, i))

\* RuleAllOrNone.NthEx(f, i)
RuleAllOrNoneNthEx(keys, finder, st, i) ==
    IF i < 0 THEN NoViolation
    ELSE
      With(allOrNoneScan(keys, finder, st, 1, FALSE, FALSE, 0), LAMBDA scan :
        IF scan.panic THEN RulePanic
        ELSE IF scan.someSet /\ scan.someNotSet
        THEN allOrNonePick(keys, finder, st, scan.idxFirstNotSet, 0, i)
        ELSE NoViolation)

\* the first loop of RuleOneOf.NthEx, from key j on: idxSecondSet counts the
\* keys from 0 as the code does, so that 0 tells that no second key is set
RECURSIVE oneOfScan(_, _, _, _, _)
oneOfScan(keys, finder, st, j, someSet) ==
    IF j > Len(keys) THEN [panic |-> FALSE, someSet |-> someSet, idxSecondSet |-> 0]
    ELSE
      With(CheckFlagValueChanged(finder, st, keys[j]), LAMBDA c :
        IF c.panic THEN [panic |-> TRUE, someSet |-> someSet, idxSecondSet |-> 0]
        ELSE IF ~c.changed THEN oneOfScan(keys, finder, st, j + 1, someSet)
        ELSE IF ~someSet THEN oneOfScan(keys, finder, st, j + 1, TRUE)
        ELSE [panic |-> FALSE, someSet |-> TRUE, idxSecondSet |-> j - 1])

\* the second loop of RuleOneOf.NthEx: the i-th key that is set
RECURSIVE oneOfPick(_, _, _, _, _, _)
oneOfPick(keys, finder, st, j, cur, i) ==
    IF j > Len(keys) THEN NoViolation
    ELSE
      With(CheckFlagValueChanged(finder, st, keys[j]), LAMBDA c :
        IF c.panic THEN RulePanic
        ELSE IF ~c.changed THEN oneOfPick(keys, finder, st, j + 1, cur, i)
        ELSE IF cur = i THEN Violation(keys[j], "ExcessiveOneOf")
        ELSE oneOfPick(keys, finder, st, j + 1, cur + 1, i))

\* RuleOneOf.NthEx(f, i)
RuleOneOfNthEx(keys, finder, st, i) ==
    IF i < 0 THEN NoViolation
    ELSE
      With(oneOfScan(keys, finder, st, 1, FALSE), LAMBDA scan :
        IF scan.panic THEN RulePanic
        ELSE IF ~scan.someSet
        THEN IF i < Len(keys) THEN Violation(keys[i + 1], "EmptyOneOf")
             ELSE NoViolation
        ELSE IF scan.idxSecondSet # 0
        THEN oneOfPick(keys, finder, st, scan.idxSecondSet + 1, 0, i)
        ELSE NoViolation)

\* the loop of RuleAnyOf.NthEx, from key j on: [panic, someSet]
RECURSIVE anyOfScan(_, _, _, _)
anyOfScan(keys, finder, st, j) ==
    IF j > Len(keys) THEN [panic |-> FALSE, someSet |-> FALSE]
    ELSE
      With(CheckFlagValueChanged(finder, st, keys[j]), LAMBDA c :
        IF c.panic THEN [panic |-> TRUE, someSet |-> FALSE]
        ELSE IF c.changed THEN [panic |-> FALSE, someSet |-> TRUE]
        ELSE anyOfScan(keys, finder, st, j + 1))

\* RuleAnyOf.NthEx(f, i)
RuleAnyOfNthEx(keys, finder, st, i) ==
    IF i < 0 THEN NoViolation
    ELSE
      With(anyOfScan(keys, finder, st, 1), LAMBDA scan :
        IF scan.panic THEN RulePanic
        ELSE IF ~scan.someSet /\ i < Len(keys)
        THEN Violation(keys[i + 1], "EmptyAnyOf")
        ELSE NoViolation)

RECURSIVE NthEx(_, _, _, _)

\* the loop `for k := 0; ; k++` of RuleDepends.NthEx and of MultiRule.NthEx
\* over the violations of one rule, i being counted down: [v, i], v the
\* violation returned from inside the loop, not found when the loop was left
RECURSIVE nthFrom(_, _, _, _, _)
nthFrom(rule, finder, st, k, i) ==
    With(NthEx(rule, finder, st, k), LAMBDA p :
      IF p.panic THEN [v |-> RulePanic, i |-> i]
      ELSE IF ~p.ok THEN [v |-> NoViolation, i |-> i]
      ELSE IF i = 0 THEN [v |-> p, i |-> i]
      ELSE nthFrom(rule, finder, st, k + 1, i - 1))

\* RuleDepends.NthEx(f, i)
RuleDependsNthEx(rule, finder, st, i) ==
    IF i < 0 THEN NoViolation
    ELSE
      With(NthEx(rule.If, finder, st, 0), LAMBDA p :
        IF p.panic THEN RulePanic
        ELSE nthFrom(IF ~p.ok THEN rule.Then ELSE rule.Else, finder, st, 0, i).v)

\* the loop over the rules with i handed to every rule as it came in
RECURSIVE multiFromSameIndex(_, _, _, _, _)
multiFromSameIndex(rules, finder, st, r, i) ==
    IF r > Len(rules) THEN NoViolation
    ELSE
      With(nthFrom(rules[r], finder, st, 0, i), LAMBDA p :
        IF p.v.ok \/ p.v.panic THEN p.v
        ELSE multiFromSameIndex(rules, finder, st, r + 1, i))

\* the loop of MultiRule.NthEx over the rules, from rule r on
RECURSIVE multiFrom(_, _, _, _, _)
multiFrom(rules, finder, st, r, i) ==
    IF r > Len(rules) THEN NoViolation
    ELSE
      With(nthFrom(rules[r], finder, st, 0, i), LAMBDA p :
        IF p.v.ok \/ p.v.panic THEN p.v
        ELSE multiFrom(rules, finder, st, r + 1, p.i))

\* Rule.NthEx(f, i)
NthEx(rule, finder, st, i) ==
    CASE rule.type = "AllOf" -> RuleAllOfNthEx(rule.keys, finder, st, i)
      [] rule.type = "AllOrNone" -> RuleAllOrNoneNthEx(rule.keys, finder, st, i)
      [] rule.type = "OneOf" -> RuleOneOfNthEx(rule.keys, finder, st, i)
      [] rule.type = "AnyOf" -> RuleAnyOfNthEx(rule.keys, finder, st, i)
      [] rule.type = "DependOn" -> RuleDependsNthEx(rule, finder, st, i)
      [] rule.type = "MultiRule" -> multiFrom(rule.rules, finder, st, 1, i)
      [] OTHER -> NoViolation

\* ------------------------------------------------------------------------
\* commands
\*   The command tree of the model: app has the children sub and odd, sub
\*   has the child leaf. Each command is [names, Flags, LocalFlags,
\*   FlagRule, Help, PreRun, Run, PostRun, PreRunOnce, PostRunOnce,
\*   Completion, Children]; a hook is TRUE when the function is not nil, Help is "none"
\*   (nil), "ok" (returns nil) or "fail" (returns an error). The FlagRule of
\*   odd has the key sl, a flag of leaf that no route through odd finds.
\*   Completion is the CompAction of the command: nil, a CompActionDisable
\*   or a CompActionStatic.
\* ------------------------------------------------------------------------

CompItem(value, kind) == [Value |-> value, Description |-> <<>>, Kind |-> kind]

\* Cmd.Completion = nil
NoCompletion == [type |-> "nil", Suggestions |-> <<>>, Want |-> {}, State |-> {}]

\* CompActionDisable{}
CompActionDisable ==
    [type |-> "Disable", Suggestions |-> <<>>, Want |-> {}, State |-> {}]

\* &CompActionStatic{Suggestions, Want, State}
CompActionStatic(suggestions, want, state) ==
    [type |-> "Static", Suggestions |-> suggestions, Want |-> want, State |-> state]

Cmds ==
    [app  |-> [names |-> << <<"a","p","p">> >>,
               Flags |-> <<"bo", "mb">>, LocalFlags |-> <<"st">>,
               FlagRule |-> NoRule, Help |-> "none",
               PreRun |-> TRUE, Run |-> TRUE, PostRun |-> TRUE,
               PreRunOnce |-> FALSE, PostRunOnce |-> TRUE,
               Completion |-> NoCompletion,
               Children |-> <<"sub", "odd">>],
     sub  |-> [names |-> << <<"s","u","b">>, <<"s">> >>,
               Flags |-> <<"in">>, LocalFlags |-> <<>>,
               FlagRule |-> AllOf(<< <<"b","o">>, <<"m","b">> >>), Help |-> "ok",
               PreRun |-> TRUE, Run |-> FALSE, PostRun |-> TRUE,
               PreRunOnce |-> TRUE, PostRunOnce |-> FALSE,
               Completion |-> CompActionStatic(<<CompItem(<<"x">>, "Text")>>,
                                               {"HasSubcmds"}, {"OptionNosort"}),
               Children |-> <<"leaf">>],
     leaf |-> [names |-> << <<"l","e","a","f">> >>,
               Flags |-> <<>>, LocalFlags |-> <<"sl">>,
               FlagRule |-> NoRule, Help |-> "none",
               PreRun |-> FALSE, Run |-> TRUE, PostRun |-> FALSE,
               PreRunOnce |-> FALSE, PostRunOnce |-> FALSE,
               Completion |-> NoCompletion,
               Children |-> <<>>],
     odd  |-> [names |-> << <<"o","d","d">> >>,
               Flags |-> <<>>, LocalFlags |-> <<>>,
               FlagRule |-> AllOf(<< <<"s","l">> >>), Help |-> "none",
               PreRun |-> FALSE, Run |-> TRUE, PostRun |-> FALSE,
               PreRunOnce |-> FALSE, PostRunOnce |-> FALSE,
               Completion |-> CompActionDisable,
               Children |-> <<>>]]

CmdIds == DOMAIN Cmds

\* a Cmd.Is that knows the first name of the Pattern only
CmdIsFirstName(c, s) == s = Cmds[c].names[1]

\* Cmd.Is(s)
CmdIs(c, s) == s \in Range(Cmds[c].names)

\* the route as a FlagFinder (Route.FindFlag): LocalFlags of the target,
\* then Flags of route[len-1] down to route[0]
RouteFinder(route) ==
    IF Len(route) = 0 THEN <<>>
    ELSE <<Cmds[route[Len(route)]].LocalFlags>>
         \o [k \in 1..Len(route) |-> Cmds[route[Len(route) + 1 - k]].Flags]

\* CmdOptions: [nil, popts, HandleArgError, HandleHelpRequest, SkipPostRun,
\* DoNotSetFlags]; the two handlers are "none" (nil), "ignore" / "ok"
\* (returns nil) or "reraise" / "fail" (returns an error)
NilCmdOpts ==
    [nil |-> TRUE, popts |-> NilOpts, HandleArgError |-> "none",
     HandleHelpRequest |-> "none", SkipPostRun |-> FALSE, DoNotSetFlags |-> FALSE]

ErrHelpHandled == Err("ErrHelpHandled", <<>>, <<>>, -1, -1)
ErrHelpPending(arg, at) == Err("ErrHelpPending", <<>>, arg, at, -1)
ErrHelpFailed == Err("ErrHelpFailed", <<>>, <<>>, -1, -1)
ErrCmdNotRunnable(name) == Err("ErrCmdNotRunnable", name, <<>>, -1, -1)
FlagViolation(key, reason) == Err("FlagViolation", key, reason, -1, -1)

\* a pick that knows the help handler of the options only
pickHelpOfOptions(opts, c) == IF opts.nil THEN "none" ELSE opts.HandleHelpRequest

\* pick(c.Help, fallbackHelp): the help handler of the command, else the
\* one of the options, "none" when both are nil
pickHelp(opts, c) ==
    IF Cmds[c].Help # "none" THEN Cmds[c].Help
    ELSE IF opts.nil THEN "none" ELSE opts.HandleHelpRequest

\* the closure helpRequested of ResolveTarget, c being the command the
\* resolution is at: [ret, err]
helpRequested(opts, c, args, helpArgAt, err) ==
    IF helpArgAt < 0 THEN [ret |-> FALSE, err |-> err]
    ELSE IF pickHelp(opts, c) # "none"
         THEN [ret |-> TRUE,
               err |-> IF pickHelp(opts, c) = "ok" THEN ErrHelpHandled
                       ELSE ErrHelpFailed]
         ELSE [ret |-> TRUE, err |-> ErrHelpPending(args[helpArgAt + 1], helpArgAt)]

\* the closure errReturn of ResolveTarget: [ret, err]; without
\* HandleArgError the help handler is called and what it returns is dropped
errReturn(opts, err) ==
    IF err = Nil THEN [ret |-> FALSE, err |-> Nil]
    ELSE IF opts.nil \/ opts.HandleArgError = "none" THEN [ret |-> TRUE, err |-> err]
    ELSE IF opts.HandleArgError = "ignore" THEN [ret |-> FALSE, err |-> Nil]
    ELSE [ret |-> TRUE, err |-> err]

\* what ResolveTarget returns, with the flag storage it leaves
Resolved(route, posArgs, dashArgs, err, st, panic) ==
    [route |-> route, posArgs |-> posArgs, dashArgs |-> dashArgs, err |-> err,
     st |-> st, panic |-> panic]

\* the first child of c that s names, "" if there is none
ChildNamed(c, s) ==
    With(Cmds[c].Children, LAMBDA children :
      With({k \in DOMAIN children : CmdIs(children[k], s)}, LAMBDA hits :
        IF hits = {} THEN ""
        ELSE children[CHOOSE k \in hits : \A j \in hits : k <= j]))

\* the part of ResolveTarget after its loop
resolveTail(route, offset, args, opts, st) ==
    With(ParseFlagsLowLevel(args, RouteFinder(route),
                            IF opts.nil THEN NilOpts ELSE opts.popts, offset, TRUE,
                            FALSE, opts.nil \/ ~opts.DoNotSetFlags, <<>>, st),
         LAMBDA r :
      LET e == errReturn(opts, r.err)
          h == helpRequested(opts, route[Len(route)], args, r.helpArgAt, e.err)
      IN  IF r.panic THEN Resolved(route, r.posArgs, <<>>, Nil, r.st, TRUE)
          ELSE IF e.ret THEN Resolved(route, r.posArgs, <<>>, e.err, r.st, FALSE)
          ELSE IF h.ret THEN Resolved(route, r.posArgs, <<>>, h.err, r.st, FALSE)
          ELSE Resolved(route, r.posArgs,
                        IF r.posDash >= 0 THEN Drop(args, r.posDash + 1) ELSE <<>>,
                        Nil, r.st, FALSE))

\* the loop of ResolveTarget, entered with c = Target(route)
RECURSIVE resolveLoop(_, _, _, _, _)
resolveLoop(route, offset, args, opts, st) ==
    IF Len(Cmds[route[Len(route)]].Children) = 0
    THEN resolveTail(route, offset, args, opts, st)
    ELSE
      With(ParseFlagsLowLevel(args, RouteFinder(route),
                              IF opts.nil THEN NilOpts ELSE opts.popts, offset,
                              FALSE, TRUE, opts.nil \/ ~opts.DoNotSetFlags, <<>>, st),
           LAMBDA r :
        LET e   == errReturn(opts, r.err)
            off == offset + r.nParsed
        IN  IF r.panic THEN Resolved(route, <<>>, <<>>, Nil, r.st, TRUE)
            ELSE IF e.ret THEN Resolved(route, <<>>, <<>>, e.err, r.st, FALSE)
            ELSE
              \* the child the next arg names; the loop is left when no
              \* positional arg is there, or when it names no child
              With(IF ~r.foundPosArg \/ off >= Len(args) THEN ""
                   ELSE ChildNamed(route[Len(route)], args[off + 1]),
                   LAMBDA child :
                \* c is the child already when helpRequested is called
                With(helpRequested(opts,
                                   IF child = "" THEN route[Len(route)] ELSE child,
                                   args, r.helpArgAt, e.err),
                     LAMBDA h :
                  IF h.ret THEN Resolved(route, <<>>, <<>>, h.err, r.st, FALSE)
                  ELSE IF child = "" THEN resolveTail(route, off, args, opts, r.st)
                  ELSE resolveLoop(Append(route, child), off + 1, args, opts, r.st))))

\* Cmd.ResolveTarget(opts, args...)
ResolveTarget(c, opts, args, st) == resolveLoop(<<c>>, 0, args, opts, st)

\* strings.Cut(s, ", ") from index k on
RECURSIVE CutCommaFrom(_, _)
CutCommaFrom(s, k) ==
    IF k + 1 > Len(s) THEN [before |-> s, after |-> <<>>, found |-> FALSE]
    ELSE IF s[k] = "," /\ s[k + 1] = " "
         THEN [before |-> SubSeq(s, 1, k - 1),
               after  |-> SubSeq(s, k + 2, Len(s)),
               found  |-> TRUE]
         ELSE CutCommaFrom(s, k + 1)

\* the loop of AssignFlagsDefaultValue over the entries of a default value
\* written as a list: every entry is decoded with set=true
RECURSIVE decodeEntries(_, _, _)
decodeEntries(f, st, def) ==
    IF Len(def) = 0 THEN [err |-> Nil, st |-> st]
    ELSE
      With(CutCommaFrom(def, 1), LAMBDA c :
        With(Decode(f, st, c.before, TRUE), LAMBDA d :
          IF d.err # Nil THEN d ELSE decodeEntries(f, d.st, c.after)))

\* a loop of AssignFlagsDefaultValue that does not look at the
\* value-changed bit
RECURSIVE assignFromAll(_, _, _)
assignFromAll(ix, st, i) ==
    IF i > Len(ix) THEN [err |-> Nil, st |-> st]
    ELSE IF Len(FlagDefs[ix[i]].def) = 0 THEN assignFromAll(ix, st, i + 1)
         ELSE With(Decode(ix[i], st, FlagDefs[ix[i]].def, TRUE), LAMBDA d :
                assignFromAll(ix, d.st, i + 1))

\* the loop of AssignFlagsDefaultValue from the i-th flag of the indexer on
RECURSIVE assignFrom(_, _, _)
assignFrom(ix, st, i) ==
    IF i > Len(ix) THEN [err |-> Nil, st |-> st]
    ELSE LET f   == ix[i]
             def == FlagDefs[f].def
         IN  IF Len(def) = 0 \/ st.chg[f] THEN assignFrom(ix, st, i + 1)
             ELSE With(IF def[1] = "[" /\ def[Len(def)] = "]"
                       THEN decodeEntries(f, st, SubSeq(def, 2, Len(def) - 1))
                       ELSE Decode(f, st, def, TRUE),
                       LAMBDA d :
                    IF d.err # Nil THEN d ELSE assignFrom(ix, d.st, i + 1))

\* AssignFlagsDefaultValue(flags, opts)
AssignFlagsDefaultValue(ix, st) == assignFrom(ix, st, 1)

\* the error a hook returns when it fails
HookError(hook, i) == Err("HookError", <<hook>>, <<>>, i, -1)

\* an entry of the record of what Exec did: the step, the index into the
\* route, the error handed in and the error that came out
Event(ev, i, in, out) == [ev |-> ev, i |-> i, in |-> in, out |-> out]

\* ------------------------------------------------------------------------
\* completion
\*   A CompItem is [Value, Description, Kind]; a CompState is the set of its
\*   bits; a CompTask is the record of its fields. The flags of the model
\*   have no CompAction, the commands and flags no usage text.
\* ------------------------------------------------------------------------

ErrTimeout == Err("ErrTimeout", <<>>, <<>>, -1, -1)

\* the zero CompTask
NoTask ==
    [ExecutablePath |-> <<>>, Args |-> <<>>, At |-> 0, ToComplete |-> <<>>,
     Route |-> <<>>, PosArgs |-> <<>>, DashArgs |-> <<>>,
     FlagMissingValue |-> "none", FlagValuePrefix |-> <<>>,
     want |-> {}, state |-> {}, result |-> <<>>]

\* strings.IndexByte(s, c) from index k on, counted from 0, -1 if absent
RECURSIVE IndexByteFrom(_, _, _)
IndexByteFrom(s, c, k) ==
    IF k > Len(s) THEN -1
    ELSE IF s[k] = c THEN k - 1
    ELSE IndexByteFrom(s, c, k + 1)

\* the switch on tsk.ToComplete that ends CompTask.Init: [tsk, panic]
InitWant(t) ==
    LET tc    == t.ToComplete
        pos   == IndexByteFrom(tc, "=", 1)
        flag  == SubSeq(tc, 1, pos)
        value == Drop(tc, pos + 1)
        subcmds == [tsk |-> [t EXCEPT !.want = {"HasSubcmds"}], panic |-> FALSE]
        both  == [tsk |-> [t EXCEPT !.want = {"HasSubcmds", "HasFlagNames"}],
                  panic |-> FALSE]
        ofFlag(name) ==
            With(FinderFindFlag(RouteFinder(t.Route), name), LAMBDA f :
              IF f.ok
              THEN [tsk |-> [t EXCEPT !.FlagMissingValue = f.f,
                                      !.FlagValuePrefix = SubSeq(tc, 1, pos + 1),
                                      !.ToComplete = value,
                                      !.want = {"HasFlagValues"}],
                    panic |-> FALSE]
              ELSE subcmds)
    IN
    IF Len(tc) = 0 THEN both
    ELSE IF ~HasPrefix(tc, "-") THEN subcmds
    ELSE IF Len(tc) > 1
    THEN IF pos < 0 THEN both
         ELSE IF Len(flag) < 2 THEN [tsk |-> t, panic |-> TRUE]   \* flag[1]
         ELSE IF flag[2] # "-"
         THEN ofFlag(SubSeq(flag, Len(flag) - LastRuneWidth(flag) + 1, Len(flag)))
         ELSE IF Len(flag) > 2 /\ ~IsShorthand(Drop(flag, 2))
         THEN ofFlag(Drop(flag, 2))
         ELSE subcmds
    ELSE both

\* CompTask.Init(root, opts, at, args...): [tsk, st, panic]
TaskInit(t, root, opts, at0, words, st) ==
    LET shifted == Len(words) > 0
        args == IF shifted THEN Tail(words) ELSE <<>>
        at   == IF shifted /\ at0 >= 0 THEN at0 - 1 ELSE at0
        toComplete == IF at < Len(args) /\ at >= 0 THEN args[at + 1] ELSE <<>>
        end  == IF at > Len(args) \/ at < 0 THEN Len(args) ELSE at
    IN
    With(ResolveTarget(root, opts, SubSeq(args, 1, end), st), LAMBDA r :
      With([t EXCEPT !.ExecutablePath = IF shifted THEN Head(words) ELSE <<>>,
                     !.Args = args,
                     !.At = IF shifted THEN at ELSE 0,
                     !.ToComplete = toComplete,
                     !.Route = r.route,
                     !.PosArgs = r.posArgs,
                     !.DashArgs = r.dashArgs],
           LAMBDA t1 :
        IF r.panic THEN [tsk |-> t1, st |-> r.st, panic |-> TRUE]
        ELSE
          With(FinderFindFlag(RouteFinder(r.route), r.err.name), LAMBDA f :
            IF r.err.kind = "ErrFlagValueMissing" /\ r.err.at = end - 1 /\ f.ok
            THEN [tsk |-> [t1 EXCEPT !.want = {"HasFlagValues"},
                                     !.FlagMissingValue = f.f],
                  st |-> r.st, panic |-> FALSE]
            ELSE With(InitWant(t1), LAMBDA w :
                   [tsk |-> w.tsk, st |-> r.st, panic |-> w.panic]))))

\* CompTask.Add(force, items...)
TaskAdd(t, force, items) ==
    IF ~force /\ t.state \cap {"Failed", "Done"} # {} THEN t
    ELSE [t EXCEPT !.result = @ \o items]

\* CompTask.AddFlagValues(false, flag, "", false): the flag is no CompAction
\* and has none as its Extra, and addDefaults is false
AddFlagValues(t, flag) ==
    IF flag = "none" \/ t.state \cap {"HasFlagValues", "Failed", "Done"} # {} THEN t
    ELSE [t EXCEPT !.state = @ \cup {"HasFlagValues"}]

\* Route.NthFlag: the flags of the route in the order of its iteration, the
\* LocalFlags of the target, then the Flags of route[len-1] down to route[0]
RECURSIVE Flatten(_)
Flatten(ixs) == IF ixs = <<>> THEN <<>> ELSE Head(ixs) \o Flatten(Tail(ixs))

\* FlagInfo.Name and FlagInfo.Shorthand of a flag
InfoName(f) == FlagDefs[f].names[1]

InfoShorthand(f) == IF Len(FlagDefs[f].names) >= 2 THEN FlagDefs[f].names[2] ELSE <<>>

\* FindFlag(flags, names...): the first name that is not empty and found
FindFlagByNames(finder, n1, n2) ==
    With(FinderFindFlag(finder, n1), LAMBDA a :
      IF Len(n1) # 0 /\ a.ok THEN a
      ELSE With(FinderFindFlag(finder, n2), LAMBDA b :
             IF Len(n2) # 0 /\ b.ok THEN b ELSE [ok |-> FALSE, f |-> "none"]))

\* the items AddFlagNames makes of the k-th flag on, for an empty word
RECURSIVE flagNameItems(_, _, _)
flagNameItems(finder, flags, k) ==
    IF k > Len(flags) THEN <<>>
    ELSE LET name  == InfoName(flags[k])
             short == InfoShorthand(flags[k])
             found == FindFlagByNames(finder, name, short)
             long  == IF Len(name) # 0 /\ ~IsShorthand(name)
                      THEN <<CompItem(name, "FlagName")>> ELSE <<>>
             sh    == IF IsShorthand(short)
                      THEN <<CompItem(short, "FlagName")>> ELSE <<>>
         IN  (IF found.ok THEN long \o sh ELSE <<>>)
             \o flagNameItems(finder, flags, k + 1)

\* CompTask.AddFlagNames(false, nil, true) for tsk.ToComplete = "": every
\* flag of the route that is not hidden is added
AddFlagNames(t) ==
    IF t.state \cap {"HasFlagNames", "Failed", "Done"} # {} THEN t
    ELSE LET finder == RouteFinder(t.Route)
             t1 == [t EXCEPT !.state = @ \cup {"HasFlagNames"}]
         IN  TaskAdd(t1, FALSE, flagNameItems(finder, Flatten(finder), 1))

\* the items AddSubcmds makes of the k-th child on: strings.HasPrefix(name,
\* "") holds of every name, so isSimilar is not consulted
RECURSIVE subcmdItems(_, _)
subcmdItems(children, k) ==
    IF k > Len(children) THEN <<>>
    ELSE [j \in 1..Len(Cmds[children[k]].names) |->
             CompItem(Cmds[children[k]].names[j], "Text")]
         \o subcmdItems(children, k + 1)

\* CompTask.AddSubcmds(false, nil, true) for tsk.ToComplete = ""
AddSubcmds(t) ==
    IF t.state \cap {"HasSubcmds", "Failed", "Done"} # {} THEN t
    ELSE LET t1 == [t EXCEPT !.state = @ \cup {"HasSubcmds"}]
         IN  TaskAdd(t1, FALSE, subcmdItems(Cmds[t.Route[Len(t.Route)]].Children, 1))

\* strings.HasPrefix(s, prefix)
HasPrefixStr(s, prefix) ==
    Len(s) >= Len(prefix) /\ SubSeq(s, 1, Len(prefix)) = prefix

\* CompTask.AddMatched(force, items...): the items whose Value begins with
\* tsk.ToComplete are appended
AddMatched(t, force, items) ==
    IF ~force /\ t.state \cap {"Failed", "Done"} # {} THEN t
    ELSE [t EXCEPT !.result =
             @ \o SelectSeq(items, LAMBDA it : HasPrefixStr(it.Value, t.ToComplete))]

\* the int an Add method returns: the number of items it appended to
\* tsk.result, t being the task before the call and t1 the task after it
Added(t, t1) == Len(t1.result) - Len(t.result)

\* x.Suggest(tsk) of the CompAction x: [tsk, added, state]
Suggest(x, t) ==
    IF x.type = "Disable"
    THEN [tsk |-> [t EXCEPT !.state = @ \cup {"Failed"}], added |-> 0,
          state |-> {"Failed"}]
    ELSE IF x.Want # {} /\ t.want \cap x.Want = {}
    THEN [tsk |-> t, added |-> 0, state |-> {}]
    ELSE With(AddMatched(t, FALSE, x.Suggestions), LAMBDA t1 :
           [tsk |-> t1, added |-> Added(t, t1), state |-> x.State])

\* CompTask.AddDefault(): [tsk, added]
AddDefault(t) ==
    With(Cmds[t.Route[Len(t.Route)]].Completion, LAMBDA x :
      With(IF x.type # "nil" THEN Suggest(x, t)
           ELSE [tsk |-> t, added |-> 0, state |-> {}],
           LAMBDA s :
        With([s.tsk EXCEPT !.state = @ \cup s.state], LAMBDA t0 :
          With(IF "HasFlagValues" \in t0.want
               THEN AddFlagValues(t0, t0.FlagMissingValue) ELSE t0,
               LAMBDA t1 :
            With(IF "HasFlagNames" \in t1.want THEN AddFlagNames(t1) ELSE t1,
                 LAMBDA t2 :
              With(IF "HasSubcmds" \in t2.want THEN AddSubcmds(t2) ELSE t2,
                   LAMBDA t3 :
                [tsk |-> t3,
                 added |-> s.added + Added(t0, t1) + Added(t1, t2)
                           + Added(t2, t3)]))))))

\* CompFmtZsh.EscapeColons(out, s, true): the first line of s, every colon
\* behind a backslash
RECURSIVE EscapeColons(_)
EscapeColons(s) ==
    IF s = <<>> \/ Head(s) = "\n" THEN <<>>
    ELSE (IF Head(s) = ":" THEN <<"\\", ":">> ELSE <<Head(s)>>)
         \o EscapeColons(Tail(s))

\* the line CompFmtZsh.Format writes for an item that is neither Files nor
\* Dirs
ZshLine(t, item) ==
    IF Len(item.Value) = 0 THEN <<>>
    ELSE (IF item.Kind = "FlagValue" THEN EscapeColons(t.FlagValuePrefix)
          ELSE IF item.Kind = "FlagName"
          THEN (IF IsShorthand(item.Value) THEN <<"-">> ELSE <<"-", "-">>)
          ELSE <<>>)
         \o EscapeColons(item.Value)
         \o (IF Len(item.Description) > 0
             THEN <<":">> \o EscapeColons(item.Description) ELSE <<>>)
         \o <<"\n">>

\* CompFmtZsh.Format(out, tsk) from the k-th item on; no item of the model
\* is of kind Files or Dirs
RECURSIVE ZshFormat(_, _)
ZshFormat(t, k) ==
    IF k > Len(t.result) THEN <<>>
    ELSE ZshLine(t, t.result[k]) \o ZshFormat(t, k + 1)

\* writeCompletions(out, tsk, fmt): what is written to out
writeCompletions(t) ==
    IF "Failed" \in t.state THEN <<>>
    ELSE (IF "OptionNospace" \in t.state THEN <<"nospace">> ELSE <<>>)
         \o (IF "OptionNosort" \in t.state
             THEN (IF "OptionNospace" \in t.state THEN <<",">> ELSE <<>>)
                  \o <<"nosort">>
             ELSE <<>>)
         \o <<"\n">>
         \o ZshFormat(t, 1)

\* the CmdOptions of the complete operation as CompCmdOpComplete.Setup makes
\* them: help requests are disabled, nothing else is set
SetupCopts ==
    [nil |-> FALSE,
     popts |-> [nil |-> FALSE, helpNil |-> FALSE, helpArgs |-> <<>>,
                handler |-> "none"],
     HandleArgError |-> "none", HandleHelpRequest |-> "none",
     SkipPostRun |-> FALSE, DoNotSetFlags |-> FALSE]

\* runOpComplete: the options of the caller copied over self.ctx.copts
CopyOpts(copts, opts) ==
    IF opts.nil THEN copts
    ELSE [copts EXCEPT !.HandleArgError = opts.HandleArgError,
                       !.HandleHelpRequest = opts.HandleHelpRequest,
                       !.SkipPostRun = opts.SkipPostRun,
                       !.DoNotSetFlags = opts.DoNotSetFlags]

\* ------------------------------------------------------------------------
\* time values and the unix-epoch VPs
\*   A time.Time is [y, mt, d, hr, min, sec, loc]. The integer a unix-epoch
\*   VP stores is kept as [unit, of]: the count of that unit from the epoch
\*   to the time `of`. ParseOptions are [nil, StartTime] here.
\* ------------------------------------------------------------------------

Date(y, mt, d, hr, min, sec, loc) ==
    [y |-> y, mt |-> mt, d |-> d, hr |-> hr, min |-> min, sec |-> sec, loc |-> loc]

\* the zero time.Time: January 1, year 1, 00:00:00 UTC
ZeroTime == Date(1, 1, 1, 0, 0, 0, "UTC")

\* Time.IsZero(); no other time of the model is the zero instant
IsZero(t) == t = ZeroTime

IsDigit(c) == c \in {"0", "1", "2", "3", "4", "5", "6", "7", "8", "9"}

\* the number the digits s[a..b] write, -1 when one of them is no digit
RECURSIVE Num(_, _, _)
Num(s, a, b) ==
    IF a > b THEN 0
    ELSE IF ~IsDigit(s[b]) \/ Num(s, a, b - 1) < 0 THEN -1
    ELSE Num(s, a, b - 1) * 10 + DigitVal(s[b])

NoTime == [ok |-> FALSE, t |-> ZeroTime]

\* the clock hr:min:sec written at s[k..], fields of two digits: [ok, hr,
\* min, sec]; n is the number of fields (1, 2 or 3)
Clock(s, k, n) ==
    LET hr  == Num(s, k, k + 1)
        min == IF n >= 2 THEN Num(s, k + 3, k + 4) ELSE 0
        sec == IF n >= 3 THEN Num(s, k + 6, k + 7) ELSE 0
    IN  [ok  |-> /\ Len(s) = k + 3 * n - 2
                 /\ (n >= 2 => s[k + 2] = ":")
                 /\ (n >= 3 => s[k + 5] = ":")
                 /\ hr >= 0 /\ hr < 24 /\ min >= 0 /\ min < 60
                 /\ sec >= 0 /\ sec < 60,
         hr |-> hr, min |-> min, sec |-> sec]

\* the date yyyy-mm-dd written at s[1..10]: [ok, y, mt, d]; the days of the
\* model are days every month has
CalDate(s) ==
    LET y  == Num(s, 1, 4)
        mt == Num(s, 6, 7)
        d  == Num(s, 9, 10)
    IN  [ok |-> /\ Len(s) >= 10 /\ s[5] = "-" /\ s[8] = "-"
                /\ y >= 0 /\ mt >= 1 /\ mt <= 12 /\ d >= 1 /\ d <= 28,
         y |-> y, mt |-> mt, d |-> d]

\* time.ParseInLocation(layout, s, loc) for the layouts parseTime tries. A
\* layout without a date gives year 0, January 1. The args of the model
\* write every field with all its digits and carry no zone, so that
\* time.RFC3339 parses none of them.
ParseInLocation(layout, s, loc) ==
    CASE layout = "15:04" ->
           With(IF Len(s) = 5 THEN Clock(s, 1, 2) ELSE [ok |-> FALSE], LAMBDA c :
             IF c.ok THEN [ok |-> TRUE, t |-> Date(0, 1, 1, c.hr, c.min, 0, loc)]
             ELSE NoTime)
      [] layout = "15:04:05" ->
           With(IF Len(s) = 8 THEN Clock(s, 1, 3) ELSE [ok |-> FALSE], LAMBDA c :
             IF c.ok THEN [ok |-> TRUE, t |-> Date(0, 1, 1, c.hr, c.min, c.sec, loc)]
             ELSE NoTime)
      [] layout = "15" ->
           With(IF Len(s) = 2 THEN Clock(s, 1, 1) ELSE [ok |-> FALSE], LAMBDA c :
             IF c.ok THEN [ok |-> TRUE, t |-> Date(0, 1, 1, c.hr, 0, 0, loc)]
             ELSE NoTime)
      [] layout = "2006-01-02" ->
           With(IF Len(s) = 10 THEN CalDate(s) ELSE [ok |-> FALSE], LAMBDA c :
             IF c.ok THEN [ok |-> TRUE, t |-> Date(c.y, c.mt, c.d, 0, 0, 0, loc)]
             ELSE NoTime)
      [] layout = "2006-01-02T15:04:05" ->
           With(IF Len(s) = 19 /\ s[11] = "T" THEN CalDate(s) ELSE [ok |-> FALSE],
                LAMBDA c :
             With(IF c.ok THEN Clock(s, 12, 3) ELSE [ok |-> FALSE], LAMBDA k :
               IF k.ok
               THEN [ok |-> TRUE, t |-> Date(c.y, c.mt, c.d, k.hr, k.min, k.sec, loc)]
               ELSE NoTime))
      [] OTHER -> NoTime

\* parseTime(s, base): [t, err]
parseTime(s, base) ==
    LET loc == base.loc
        onBase(c) == Date(base.y, base.mt, base.d, c.hr, c.min, c.sec, loc)
        hm   == ParseInLocation("15:04", s, loc)
        day  == ParseInLocation("2006-01-02", s, loc)
        dt   == ParseInLocation("2006-01-02T15:04:05", s, loc)
        zone == ParseInLocation("RFC3339", s, loc)
        hms  == ParseInLocation("15:04:05", s, loc)
        hr   == ParseInLocation("15", s, loc)
    IN  IF hm.ok THEN [t |-> onBase(hm.t), err |-> Nil]
        ELSE IF day.ok THEN [t |-> day.t, err |-> Nil]
        ELSE IF dt.ok THEN [t |-> dt.t, err |-> Nil]
        ELSE IF zone.ok THEN [t |-> zone.t, err |-> Nil]
        ELSE IF hms.ok THEN [t |-> onBase(hms.t), err |-> Nil]
        ELSE IF hr.ok
        THEN [t |-> Date(base.y, base.mt, base.d, hr.t.hr, 0, 0, loc), err |-> Nil]
        ELSE [t |-> ZeroTime, err |-> ErrInvalidValue(s)]

\* t.Unix(), t.UnixMilli(), t.UnixMicro() and t.UnixNano() as T
UnixOf(unit, t) == [unit |-> unit, of |-> t]

\* the rest of a unix-epoch ParseValue once the base time t is chosen
unixFrom(unit, t, arg, old, set) ==
    With(parseTime(arg, t), LAMBDA r :
      IF r.err # Nil THEN [err |-> r.err, out |-> old, panic |-> FALSE]
      ELSE [err |-> Nil, out |-> IF set THEN UnixOf(unit, r.t) ELSE old,
            panic |-> FALSE])

\* a unix-epoch ParseValue that reads opts.StartTime of nil options
UnixPanic(old) == [err |-> Nil, out |-> old, panic |-> TRUE]

\* VPUnixSec.ParseValue(opts, arg, out, set), now being time.Now()
VPUnixSecParse(opts, now, arg, old, set) ==
    unixFrom("sec", IF opts.nil \/ IsZero(opts.StartTime) THEN now
                    ELSE opts.StartTime, arg, old, set)

\* the condition `opts != nil || opts.StartTime.IsZero()` of the other three
\* and the base time it chooses: [t, panic]
StartTimeFirst(opts, now) ==
    IF ~opts.nil THEN [t |-> opts.StartTime, panic |-> FALSE]
    ELSE [t |-> now, panic |-> TRUE]   \* opts.StartTime of nil opts

\* VPUnixMilli.ParseValue(opts, arg, out, set)
VPUnixMilliParse(opts, now, arg, old, set) ==
    With(StartTimeFirst(opts, now), LAMBDA b :
      IF b.panic THEN UnixPanic(old) ELSE unixFrom("milli", b.t, arg, old, set))

\* VPUnixMicro.ParseValue(opts, arg, out, set)
VPUnixMicroParse(opts, now, arg, old, set) ==
    With(StartTimeFirst(opts, now), LAMBDA b :
      IF b.panic THEN UnixPanic(old) ELSE unixFrom("micro", b.t, arg, old, set))

\* VPUnixNano.ParseValue(opts, arg, out, set)
VPUnixNanoParse(opts, now, arg, old, set) ==
    With(StartTimeFirst(opts, now), LAMBDA b :
      IF b.panic THEN UnixPanic(old) ELSE unixFrom("nano", b.t, arg, old, set))

\* ParseValue of the unix-epoch VP vp
UnixParseValue(vp, opts, now, arg, old, set) ==
    CASE vp = "VPUnixSec"   -> VPUnixSecParse(opts, now, arg, old, set)
      [] vp = "VPUnixMilli" -> VPUnixMilliParse(opts, now, arg, old, set)
      [] vp = "VPUnixMicro" -> VPUnixMicroParse(opts, now, arg, old, set)
      [] vp = "VPUnixNano"  -> VPUnixNanoParse(opts, now, arg, old, set)

\* the int64 zero behind out before the call
UnixZero == [unit |-> "none", of |-> ZeroTime]

NoUnixCall ==
    [vp |-> "none", opts |-> [nil |-> TRUE, StartTime |-> ZeroTime],
     now |-> ZeroTime, arg |-> <<>>, set |-> FALSE]

NoUnixResult == [err |-> Nil, out |-> UnixZero]

\* ------------------------------------------------------------------------
\* the indexers
\*   A struct type is the sequence of its fields, [exported, tagged, names]:
\*   tagged says that the field has a `cli` tag, names are the texts between
\*   the pipes of the tag before its first comma (a tag of the model has no
\*   options). Field and flag indices count from 0 as in the source. A
\*   FlagInfo is [Name, Shorthand]. A *FlagReflect is [Field, gen]: the
\*   gen-th FlagReflect made for the field.
\* ------------------------------------------------------------------------

\* a Go map without entries
EmptyMap == <<>>

\* m[k] = v
MapPut(m, k, v) == (k :> v) @@ m

NoInfo == [Name |-> <<>>, Shorthand |-> <<>>]

\* the nil *FlagReflect, the nil Flag
NoFlagReflect == [Field |-> -1, gen |-> 0]

\* &ReflectIndexer{StructV: ..., Factory: ...} before its first call
NewReflectIndexer == [Names |-> EmptyMap, Refs |-> <<>>, TotalFlags |-> 0]

\* NewMapIndexer()
NewMapIndexer == [next |-> 0, n2i |-> EmptyMap, i2f |-> EmptyMap]

\* the loop over the names of createRefFromTag and of AddWithDefaultValue:
\* the first shorthand becomes Info.Shorthand, the first other name Info.Name
InfoWith(info, name) ==
    IF IsShorthand(name)
    THEN (IF Len(info.Shorthand) = 0 THEN [info EXCEPT !.Shorthand = name] ELSE info)
    ELSE (IF Len(info.Name) = 0 THEN [info EXCEPT !.Name = name] ELSE info)

\* createRefFromTag from the k-th name of the tag on: [Names, Info, nameMatch]
RECURSIVE tagNames(_, _, _, _, _)
tagNames(names, k, flagIndex, matchName, acc) ==
    IF k > Len(names) THEN acc
    ELSE IF Len(names[k]) = 0 THEN tagNames(names, k + 1, flagIndex, matchName, acc)
    ELSE tagNames(names, k + 1, flagIndex, matchName,
                  [Names |-> MapPut(acc.Names, names[k], flagIndex),
                   Info |-> InfoWith(acc.Info, names[k]),
                   nameMatch |-> acc.nameMatch
                                 \/ (Len(matchName) # 0 /\ matchName = names[k])])

\* r.createRefFromTag(fieldIndex, tag, flagIndex, matchName): [r, ref,
\* nameMatch]
createRefFromTag(r, fieldIndex, names, flagIndex, matchName) ==
    With(tagNames(names, 1, flagIndex, matchName,
                  [Names |-> r.Names, Info |-> NoInfo, nameMatch |-> FALSE]),
         LAMBDA a :
      [r |-> [r EXCEPT !.Names = a.Names],
       ref |-> [Field |-> fieldIndex, Info |-> a.Info, Flag |-> NoFlagReflect],
       nameMatch |-> a.nameMatch])

\* r.getFieldFlag(ref): [r, made, flag]; made counts the FlagReflects made
\* for every field
getFieldFlag(r, made, ref) ==
    IF r.Refs[ref + 1].Flag # NoFlagReflect
    THEN [r |-> r, made |-> made, flag |-> r.Refs[ref + 1].Flag]
    ELSE LET field == r.Refs[ref + 1].Field
             flag  == [Field |-> field, gen |-> made[field + 1] + 1]
         IN  [r |-> [r EXCEPT !.Refs[ref + 1].Flag = flag],
              made |-> [made EXCEPT ![field + 1] = @ + 1],
              flag |-> flag]

\* what FindFlag and NthFlag of an indexer return, with what became of the
\* indexer; upTo is the number of fields the call has looked at
IdxResult(r, made, ok, ans, upTo) ==
    [r |-> r, made |-> made, ok |-> ok, ans |-> ans, upTo |-> upTo,
     panic |-> FALSE]

\* the value of TotalFlags after the loop over the fields
Counted(totalFlags) == IF totalFlags = 0 THEN -1 ELSE totalFlags

\* the loop of ReflectIndexer.FindFlag from the field fieldIndex on
RECURSIVE findScan(_, _, _, _, _, _, _)
findScan(r, made, typ, s, fieldIndex, flagIndex, totalFlags) ==
    IF fieldIndex >= Len(typ)
    THEN IdxResult([r EXCEPT !.TotalFlags = Counted(totalFlags)], made,
                   FALSE, NoFlagReflect, Len(typ))
    ELSE IF ~typ[fieldIndex + 1].exported \/ ~typ[fieldIndex + 1].tagged
    THEN findScan(r, made, typ, s, fieldIndex + 1, flagIndex, totalFlags)
    ELSE IF flagIndex + 1 < Len(r.Refs)
    THEN findScan(r, made, typ, s, fieldIndex + 1, flagIndex + 1, totalFlags + 1)
    ELSE With(createRefFromTag(r, fieldIndex, typ[fieldIndex + 1].names,
                               flagIndex + 1, s),
              LAMBDA c :
           With([c.r EXCEPT !.Refs = Append(@, c.ref)], LAMBDA r1 :
             IF c.nameMatch
             THEN With(getFieldFlag(
                         IF fieldIndex = Len(typ) - 1
                         THEN [r1 EXCEPT !.TotalFlags = totalFlags + 1] ELSE r1,
                         made, flagIndex + 1),
                       LAMBDA g :
                    IdxResult(g.r, g.made, TRUE, g.flag, fieldIndex + 1))
             ELSE findScan(r1, made, typ, s, fieldIndex + 1, flagIndex + 1,
                           totalFlags + 1)))

\* r.FindFlag(s) of the ReflectIndexer r over the struct type typ
ReflectFindFlag(r, made, typ, s) ==
    IF r.TotalFlags < 0 THEN IdxResult(r, made, FALSE, NoFlagReflect, 0)
    ELSE IF s \in DOMAIN r.Names
    THEN With(getFieldFlag(r, made, r.Names[s]), LAMBDA g :
           IdxResult(g.r, g.made, TRUE, g.flag, 0))
    ELSE IF r.TotalFlags # 0 THEN IdxResult(r, made, FALSE, NoFlagReflect, 0)
    ELSE findScan(r, made, typ, s, 0, -1, 0)

\* the loop of ReflectIndexer.NthFlag from the field fieldIndex on
RECURSIVE nthScan(_, _, _, _, _, _, _)
nthScan(r, made, typ, i, fieldIndex, flagIndex, totalFlags) ==
    IF fieldIndex >= Len(typ)
    THEN IdxResult([r EXCEPT !.TotalFlags = Counted(totalFlags)], made,
                   FALSE, NoInfo, Len(typ))
    ELSE IF ~typ[fieldIndex + 1].exported \/ ~typ[fieldIndex + 1].tagged
    THEN nthScan(r, made, typ, i, fieldIndex + 1, flagIndex, totalFlags)
    ELSE IF flagIndex + 1 < Len(r.Refs)
    THEN IF i = 0
         THEN IdxResult(r, made, TRUE, r.Refs[flagIndex + 2].Info, fieldIndex + 1)
         ELSE nthScan(r, made, typ, i - 1, fieldIndex + 1, flagIndex + 1,
                      totalFlags + 1)
    ELSE With(createRefFromTag(r, fieldIndex, typ[fieldIndex + 1].names,
                               flagIndex + 1, <<>>),
              LAMBDA c :
           With([c.r EXCEPT !.Refs = Append(@, c.ref)], LAMBDA r1 :
             IF i = 0
             THEN IdxResult(IF fieldIndex = Len(typ) - 1
                            THEN [r1 EXCEPT !.TotalFlags = totalFlags + 1] ELSE r1,
                            made, TRUE, c.ref.Info, fieldIndex + 1)
             ELSE nthScan(r1, made, typ, i - 1, fieldIndex + 1, flagIndex + 1,
                          totalFlags + 1)))

\* r.NthFlag(i) of the ReflectIndexer r: r.Refs[i] of a negative i panics
ReflectNthFlag(r, made, typ, i) ==
    IF r.TotalFlags < 0 THEN IdxResult(r, made, FALSE, NoInfo, 0)
    ELSE IF i < Len(r.Refs)
    THEN IF i < 0 THEN [IdxResult(r, made, FALSE, NoInfo, 0) EXCEPT !.panic = TRUE]
         ELSE IdxResult(r, made, TRUE, r.Refs[i + 1].Info, 0)
    ELSE IF r.TotalFlags > 0 THEN IdxResult(r, made, FALSE, NoInfo, 0)
    ELSE nthScan(r, made, typ, i, 0, -1, 0)

\* the loop over the names of MapIndexer.AddWithDefaultValue from the k-th
\* name on: [n2i, info, panic]
RECURSIVE addNames(_, _, _, _)
addNames(names, k, index, acc) ==
    IF k > Len(names) THEN acc
    ELSE IF Len(names[k]) = 0 \/ names[k] \in DOMAIN acc.n2i
    THEN [acc EXCEPT !.panic = TRUE]
    ELSE addNames(names, k + 1, index,
                  [n2i |-> MapPut(acc.n2i, names[k], index),
                   info |-> InfoWith(acc.info, names[k]),
                   panic |-> FALSE])

\* m.Add(flag, names...): [m, panic]
MapIndexerAdd(m, flag, names) ==
    IF Len(names) = 0 THEN [m |-> m, panic |-> TRUE]
    ELSE With(addNames(names, 1, m.next,
                       [n2i |-> m.n2i, info |-> NoInfo, panic |-> FALSE]),
              LAMBDA a :
           IF a.panic
           THEN [m |-> [m EXCEPT !.next = @ + 1, !.n2i = a.n2i], panic |-> TRUE]
           ELSE [m |-> [next |-> m.next + 1, n2i |-> a.n2i,
                        i2f |-> MapPut(m.i2f, m.next,
                                       [flag |-> flag, info |-> a.info])],
                 panic |-> FALSE])

\* m.FindFlag(name): [ok, ans, panic]
MapIndexerFindFlag(m, name) ==
    IF name \in DOMAIN m.n2i /\ m.n2i[name] \in DOMAIN m.i2f
    THEN [ok |-> TRUE, ans |-> m.i2f[m.n2i[name]].flag, panic |-> FALSE]
    ELSE [ok |-> FALSE, ans |-> NoFlagReflect, panic |-> FALSE]

\* m.NthFlag(i): [ok, ans, panic]
MapIndexerNthFlag(m, i) ==
    IF i \in DOMAIN m.i2f THEN [ok |-> TRUE, ans |-> m.i2f[i].info, panic |-> FALSE]
    ELSE [ok |-> FALSE, ans |-> NoInfo, panic |-> FALSE]

\* the answers seen so far, those of FindFlag and those of NthFlag
NoneSeen == [FindFlag |-> {}, NthFlag |-> {}]

\* upTo is the number of fields of the struct the calls have looked at so far
NoIdxCall == [op |-> "none", arg |-> <<>>, ok |-> FALSE, ans |-> <<>>,
              scanned |-> FALSE, upTo |-> 0]

\* ------------------------------------------------------------------------
\* state
\* ------------------------------------------------------------------------

VARIABLES
    cells,   \* the flag storage: [val, chg], the cell and the value-changed
             \* bit of every flag
    calls,   \* number of calls an application made on its flags so far
    last,    \* what the latest of these calls was given and what it returned
    okSet,   \* history: flags on which a Decode with set=true has succeeded
    ppc,     \* ParseFlags: "ready" before the call, "returned" or "panicked"
    pin,     \* ParseFlags: the argument vector and options of the call
    pout,    \* ParseFlags: what the call returned
    xpc,     \* Exec: where the call stands
    xin,     \* Exec: the arguments and options of the call
    xroute,  \* Exec: the route ResolveTarget returned
    xres,    \* Exec: the posArgs and dashArgs ResolveTarget returned
    xi,      \* Exec: the loop index i
    xerr,    \* Exec: the variable err, the returned error once xpc = "returned"
    trace,   \* Exec: history of the steps of the call, in order
    cstate,  \* Cmd.State of every command: the PreRunCalled / PostRunCalled bits
    cpc,     \* completion: where the calling goroutine stands
    creq,    \* completion: the request, [entry, opts, words, at, timeout]
    copts,   \* completion: self.ctx.copts of the complete operation
    tsk,     \* completion: the CompTask
    apc,     \* completion: where the goroutine running AddDefault stands
    done,    \* completion: the channel done is closed
    timer,   \* completion: "none", "running", "fired" or "stopped"
    timerC,  \* completion: number of values waiting in timer.C
    cout,    \* completion: what was written to the output
    cret,    \* completion: the named result err of generateCompletion
    cadd,    \* completion: what the calls of AddDefault on the task of a
             \* CompTask.Init returned, in order
    rpc,     \* rules: "ready" while NthEx is called with rising i, then "done"
    rin,     \* rules: the rule under enumeration
    rk,      \* rules: the index i of the next call of NthEx
    rout,    \* rules: the violations the calls returned so far, in order
    fpc,     \* Route.FindFlag: "ready" before the call, "returned" after it
    fin,     \* Route.FindFlag: the route and the name of the call
    fout,    \* Route.FindFlag: what the call returned and which finders it asked
    tpc,     \* unix-epoch VP: "ready" before ParseValue, "returned" or "panicked"
    tin,     \* unix-epoch VP: the VP, the arguments of the call and time.Now()
    tout,    \* unix-epoch VP: the error returned and the value behind out
    ipc,     \* indexer: "ready", or "panicked" once a call has panicked
    iobj,    \* indexer: "MapIndexer" or "ReflectIndexer", the one worked on
    ityp,    \* indexer: the fields of the struct behind the ReflectIndexer
    ridx,    \* indexer: the ReflectIndexer, [Names, Refs, TotalFlags]
    imade,   \* indexer: history, the FlagReflects made so far for every field
    midx,    \* indexer: the MapIndexer, [next, n2i, i2f]
    ilast,   \* indexer: the latest call, its arguments and what it returned
    iseen,   \* indexer: history, every FindFlag and NthFlag and its answer
    icalls   \* indexer: number of calls made so far

decodeVars == <<calls, last, okSet>>

parseVars == <<ppc, pin, pout>>

execVars == <<xpc, xin, xroute, xres, xi, xerr, trace, cstate>>

compVars == <<cpc, creq, copts, tsk, apc, done, timer, timerC, cout, cret, cadd>>

ruleVars == <<rpc, rin, rk, rout>>

findVars == <<fpc, fin, fout>>

timeVars == <<tpc, tin, tout>>

idxVars == <<ipc, iobj, ityp, ridx, imade, midx, ilast, iseen, icalls>>

\* every flag in one indexer, in registration order
AllFlags == <<"nu", "bo", "st", "in", "mb", "he", "sl", "ma", "pt",
              "ri", "rb", "rt", "rs", "rl">>

\* all sequences over S of length at most n
RECURSIVE SeqsUpTo(_, _)
SeqsUpTo(S, n) ==
    IF n = 0 THEN {<<>>}
    ELSE LET shorter == SeqsUpTo(S, n - 1)
         IN  shorter \cup {Append(q, x) : q \in shorter, x \in S}

NoCall == [op |-> "none", f |-> "none", set |-> FALSE, err |-> "nil",
           dec |-> {}, seen |-> {}]

NoParse == [fn |-> "none", offset |-> 0, appendPosArgs |-> FALSE,
            stopAtFirstPosArg |-> FALSE, setFlagValue |-> FALSE,
            nParsed |-> 0, posDash |-> -1, foundPosArg |-> FALSE,
            posArgs |-> <<>>, dashArgs |-> <<>>, helpArgAt |-> -1, err |-> Nil,
            dec |-> {}, seen |-> {}, at |-> {}, errAt |-> {}, skipAt |-> {}]

DecodeIdle == calls = 0 /\ last = NoCall /\ okSet = {}

ExecIdle ==
    /\ xpc = "idle"
    /\ xin = [args |-> <<>>, opts |-> NilCmdOpts]
    /\ xroute = <<>>
    /\ xres = [posArgs |-> <<>>, dashArgs |-> <<>>]
    /\ xi = 0
    /\ xerr = Nil
    /\ trace = <<>>
    /\ cstate = [c \in CmdIds |-> [PreRunCalled |-> FALSE, PostRunCalled |-> FALSE]]

ParseIdle == ppc = "idle" /\ pin = [args |-> <<>>, opts |-> NilOpts] /\ pout = NoParse

RuleIdle == rpc = "idle" /\ rin = NoRule /\ rk = 0 /\ rout = <<>>

\* a FlagFinder as Route.FindFlag sees it: a nil interface, or the names it
\* finds a flag for
NilFinder == [nil |-> TRUE, names |-> {}]

\* no flag: the nil Flag
NilFlag == [cmd |-> [Flags |-> NilFinder, LocalFlags |-> NilFinder],
            which |-> "none", name |-> ""]

NoFound == [ok |-> FALSE, f |-> NilFlag, consulted |-> <<>>]

FindIdle == fpc = "idle" /\ fin = [route |-> <<>>, name |-> ""] /\ fout = NoFound

TimeIdle == tpc = "idle" /\ tin = NoUnixCall /\ tout = NoUnixResult

IdxIdle ==
    /\ ipc = "idle"
    /\ iobj = "none"
    /\ ityp = <<>>
    /\ ridx = NewReflectIndexer
    /\ imade = <<>>
    /\ midx = NewMapIndexer
    /\ ilast = NoIdxCall
    /\ iseen = NoneSeen
    /\ icalls = 0

NoReq == [entry |-> "none", opts |-> NilCmdOpts, words |-> <<>>, at |-> 0,
          timeout |-> 0]

CompIdle ==
    /\ cpc = "idle"
    /\ creq = NoReq
    /\ copts = SetupCopts
    /\ tsk = NoTask
    /\ apc = "none"
    /\ done = FALSE
    /\ timer = "none"
    /\ timerC = 0
    /\ cout = <<>>
    /\ cret = Nil
    /\ cadd = <<>>

\* ------------------------------------------------------------------------
\* SpecDecode: an application calling Decode, ParseValue and the parser on
\* its flags, in any order
\* ------------------------------------------------------------------------

\* the texts handed to Decode and ParseValue
DecodeArgs == {<<"1">>, <<"k", "=", "2">>}

\* the tokens of the argument vectors handed to the parser
DecodeTokens == {<<"-", "-", "r", "l">>, <<"1">>, <<"-", "a", "b">>}

InitDecode ==
    /\ cells = InitialCells
    /\ DecodeIdle
    /\ ParseIdle
    /\ ExecIdle
    /\ CompIdle
    /\ RuleIdle
    /\ FindIdle
    /\ TimeIdle
    /\ IdxIdle

\* one call of Flag.Decode(opts, name, arg, set)
DecodeCall ==
    /\ calls < MaxDecodes
    /\ \E f \in FlagIds, arg \in DecodeArgs, set \in BOOLEAN :
         LET returned(d) ==
                 /\ cells' = Storage(d.st)
                 /\ last' = [op |-> "Decode", f |-> f, set |-> set,
                             err |-> d.err.kind,
                             dec |-> d.st.dec, seen |-> d.st.seen]
                 /\ okSet' = IF set /\ d.err = Nil THEN okSet \cup {f} ELSE okSet
         IN  returned(Decode(f, Enter(cells), arg, set))
    /\ calls' = calls + 1
    /\ UNCHANGED <<parseVars, execVars, compVars, ruleVars, findVars, timeVars, idxVars>>

\* one call of VP.ParseValue(opts, arg, out, set) on the cell of a flag
ParseValueCall ==
    /\ calls < MaxDecodes
    /\ \E f \in FlagIds, arg \in DecodeArgs, set \in BOOLEAN :
         LET returned(r) ==
                 /\ cells' = [cells EXCEPT !.val[f] = r.out]
                 /\ last' = [op |-> "ParseValue", f |-> f, set |-> set,
                             err |-> r.err.kind,
                             dec |-> IF set THEN {f} ELSE {}, seen |-> {f}]
         IN  returned(ParseValue(FlagDefs[f].vp, arg, cells.val[f], set))
    /\ calls' = calls + 1
    /\ UNCHANGED <<okSet, parseVars, execVars, compVars, ruleVars, findVars, timeVars, idxVars>>

\* one run of ParseFlagsLowLevel over the flags, setFlagValue either way
ParseCall ==
    /\ calls < MaxDecodes
    /\ \E args \in SeqsUpTo(DecodeTokens, MaxArgs), set \in BOOLEAN :
         LET returned(r) ==
                 /\ cells' = Storage(r.st)
                 /\ last' = [op |-> "Parse", f |-> "none", set |-> set,
                             err |-> IF r.panic THEN "panic" ELSE r.err.kind,
                             dec |-> r.st.dec, seen |-> r.st.seen]
                 /\ okSet' = okSet \cup {f \in r.st.dec : r.st.chg[f]}
         IN  returned(ParseFlagsLowLevel(args, <<AllFlags>>, NilOpts, 0, TRUE,
                                         FALSE, set, <<>>, Enter(cells)))
    /\ calls' = calls + 1
    /\ UNCHANGED <<parseVars, execVars, compVars, ruleVars, findVars, timeVars, idxVars>>

NextDecode == DecodeCall \/ ParseValueCall \/ ParseCall

\* ------------------------------------------------------------------------
\* SpecParse: one call of ParseFlags or of ParseFlagsLowLevel on an argument
\* vector
\* ------------------------------------------------------------------------

\* the tokens of the argument vectors: the empty token, "-", "--", "--=x",
\* "-=x", a cluster with a two-byte shorthand, a flag that needs a value,
\* a positional, a flag with an implied value, a value that looks like a
\* flag; clusters with a shorthand that has no implied value in the middle
\* (-bsx, -sb=v) and at the end (-bs=v, -bs); the flag with an implied value
\* as a shorthand and with its value attached; a help arg
ParseTokens == {<<>>, <<"-">>, <<"-", "-">>, <<"-", "-", "=", "x">>,
                <<"-", "h">>,
                <<"-", "=", "x">>, <<"-", "E1", "E2", "b">>,
                <<"-", "-", "s", "t">>, <<"x">>, <<"-", "-", "n", "u">>,
                <<"-", "1">>,
                <<"-", "b", "s", "x">>, <<"-", "s", "b", "=", "v">>,
                <<"-", "b", "s", "=", "v">>, <<"-", "b", "s">>,
                <<"-", "a">>, <<"-", "-", "n", "u", "=", "-", "1">>}

ParseOptsSet ==
    {NilOpts} \cup
    {[nil |-> FALSE, helpNil |-> TRUE, helpArgs |-> <<>>, handler |-> h] :
        h \in {"none", "ignore", "reraise"}}

InitParse ==
    /\ cells = InitialCells
    /\ DecodeIdle
    /\ ppc = "ready"
    /\ pin \in [args : SeqsUpTo(ParseTokens, MaxArgs), opts : ParseOptsSet]
    /\ pout = NoParse
    /\ ExecIdle
    /\ CompIdle
    /\ RuleIdle
    /\ FindIdle
    /\ TimeIdle
    /\ IdxIdle

\* ParseFlags(args, flags, opts)
ParseFlagsRun ==
    /\ ppc = "ready"
    /\ LET returned(r) ==
               /\ ppc' = IF r.panic THEN "panicked" ELSE "returned"
               /\ cells' = Storage(r.st)
               /\ pout' = [NoParse EXCEPT !.fn = "ParseFlags",
                             !.appendPosArgs = TRUE, !.setFlagValue = TRUE,
                             !.posArgs = r.posArgs, !.dashArgs = r.dashArgs,
                             !.err = r.err, !.dec = r.st.dec, !.seen = r.st.seen,
                             !.at = r.st.at, !.errAt = r.st.errAt,
                             !.skipAt = r.st.skipAt]
       IN  returned(ParseFlags(pin.args, <<AllFlags>>, pin.opts, Enter(cells)))
    /\ UNCHANGED <<pin, decodeVars, execVars, compVars, ruleVars, findVars, timeVars, idxVars>>

\* ParseFlagsLowLevel(args, flags, opts, offset, appendPosArgs,
\*                    stopAtFirstPosArg, setFlagValue, nil)
ParseFlagsLowLevelRun ==
    /\ ppc = "ready"
    /\ \E offset \in 0..Len(pin.args), app \in BOOLEAN, stop \in BOOLEAN,
          set \in BOOLEAN :
         LET returned(r) ==
                 /\ ppc' = IF r.panic THEN "panicked" ELSE "returned"
                 /\ cells' = Storage(r.st)
                 /\ pout' = [fn |-> "ParseFlagsLowLevel", offset |-> offset,
                             appendPosArgs |-> app, stopAtFirstPosArg |-> stop,
                             setFlagValue |-> set,
                             nParsed |-> r.nParsed, posDash |-> r.posDash,
                             foundPosArg |-> r.foundPosArg, posArgs |-> r.posArgs,
                             dashArgs |-> <<>>, helpArgAt |-> r.helpArgAt,
                             err |-> r.err, dec |-> r.st.dec, seen |-> r.st.seen,
                             at |-> r.st.at, errAt |-> r.st.errAt,
                             skipAt |-> r.st.skipAt]
         IN  returned(ParseFlagsLowLevel(pin.args, <<AllFlags>>, pin.opts, offset,
                                         app, stop, set, <<>>, Enter(cells)))
    /\ UNCHANGED <<pin, decodeVars, execVars, compVars, ruleVars, findVars, timeVars, idxVars>>

NextParse == ParseFlagsRun \/ ParseFlagsLowLevelRun

\* ------------------------------------------------------------------------
\* Spec: an application calling Cmd.Exec on the root command, again and
\* again; the hooks of the commands return nil or an error
\* ------------------------------------------------------------------------

ExecTokens == {<<"s","u","b">>, <<"s">>, <<"l","e","a","f">>, <<"o","d","d">>,
               <<"-","-","b","o">>, <<"-","-","m","b">>, <<"-","-","i","n","=","3">>,
               <<"x">>, <<"-","-">>, <<"h","e","l","p">>, <<"-","h">>}

ExecOptsSet ==
    {NilCmdOpts,
     [NilCmdOpts EXCEPT !.nil = FALSE, !.SkipPostRun = TRUE],
     [NilCmdOpts EXCEPT !.nil = FALSE, !.DoNotSetFlags = TRUE],
     [NilCmdOpts EXCEPT !.nil = FALSE, !.HandleHelpRequest = "ok"],
     [NilCmdOpts EXCEPT !.nil = FALSE, !.HandleHelpRequest = "fail"]}

Init ==
    /\ cells = InitialCells
    /\ DecodeIdle
    /\ ParseIdle
    /\ ExecIdle
    /\ CompIdle
    /\ RuleIdle
    /\ FindIdle
    /\ TimeIdle
    /\ IdxIdle

\* Exec up to the return of ResolveTarget
ExecStart ==
    /\ xpc = "idle"
    /\ \E args \in SeqsUpTo(ExecTokens, MaxExecArgs), opts \in ExecOptsSet :
         LET resolved(r) ==
                 /\ xin' = [args |-> args, opts |-> opts]
                 /\ cells' = Storage(r.st)
                 /\ xroute' = r.route
                 /\ xres' = [posArgs |-> r.posArgs, dashArgs |-> r.dashArgs]
                 /\ xerr' = r.err
                 /\ xpc' = IF r.panic THEN "panicked"
                           ELSE IF r.err # Nil THEN "returned" ELSE "defaults"
         IN  resolved(ResolveTarget("app", opts, args, Enter(cells)))
    /\ xi' = 0
    /\ trace' = <<>>
    /\ UNCHANGED <<cstate, decodeVars, parseVars, compVars, ruleVars, findVars, timeVars, idxVars>>

\* an Exec that goes on to the rule without assigning any default value
ExecDefaultsNotAssigned ==
    /\ xpc = "defaults"
    /\ trace' = Append(trace, Event("Defaults", xi, Nil, Nil))
    /\ xpc' = "rule"
    /\ UNCHANGED <<cells, xerr, xin, xroute, xres, xi, cstate, decodeVars, parseVars, compVars, ruleVars, findVars, timeVars, idxVars>>

\* tryAssignFlagsDefaultValue of LocalFlags, then of Flags, of route[i]
ExecDefaults ==
    /\ xpc = "defaults"
    /\ \E a1 \in {AssignFlagsDefaultValue(Cmds[xroute[xi + 1]].LocalFlags, Enter(cells))} :
       \E a2 \in {IF a1.err # Nil THEN a1
                  ELSE AssignFlagsDefaultValue(Cmds[xroute[xi + 1]].Flags, a1.st)} :
         /\ cells' = Storage(a2.st)
         /\ trace' = Append(trace, Event("Defaults", xi, Nil, a2.err))
         /\ xerr' = a2.err
         /\ xpc' = IF a2.err # Nil THEN "returned" ELSE "rule"
    /\ UNCHANGED <<xin, xroute, xres, xi, cstate, decodeVars, parseVars, compVars, ruleVars, findVars, timeVars, idxVars>>

\* an Exec that asks the rule for its violation 1 instead of 0
ExecRuleSecond ==
    /\ xpc = "rule"
    /\ LET c == Cmds[xroute[xi + 1]]
           checked(v) ==
               /\ trace' = IF c.FlagRule = NoRule THEN trace
                           ELSE Append(trace, Event("Rule", xi, Nil,
                                  IF v.ok THEN FlagViolation(v.key, v.reason)
                                  ELSE Nil))
               /\ xerr' = IF v.ok THEN FlagViolation(v.key, v.reason) ELSE xerr
               /\ xpc' = IF v.panic THEN "panicked"
                         ELSE IF v.ok THEN "returned" ELSE "prerun"
       IN  checked(NthEx(c.FlagRule, RouteFinder(xroute), cells, 1))
    /\ UNCHANGED <<cells, xin, xroute, xres, xi, cstate, decodeVars, parseVars, compVars, ruleVars, findVars, timeVars, idxVars>>

\* the evaluation of the FlagRule of route[i]: its violation 0, if any
ExecRule ==
    /\ xpc = "rule"
    /\ LET c == Cmds[xroute[xi + 1]]
           checked(v) ==
               /\ trace' = IF c.FlagRule = NoRule THEN trace
                           ELSE Append(trace, Event("Rule", xi, Nil,
                                  IF v.ok THEN FlagViolation(v.key, v.reason)
                                  ELSE Nil))
               /\ xerr' = IF v.ok THEN FlagViolation(v.key, v.reason) ELSE xerr
               /\ xpc' = IF v.panic THEN "panicked"
                         ELSE IF v.ok THEN "returned" ELSE "prerun"
       IN  checked(NthEx(c.FlagRule, RouteFinder(xroute), cells, 0))
    /\ UNCHANGED <<cells, xin, xroute, xres, xi, cstate, decodeVars, parseVars, compVars, ruleVars, findVars, timeVars, idxVars>>

\* where the loop over the route goes after route[i]
AfterPreRun(i) == IF i + 1 < Len(xroute) THEN "defaults" ELSE "run"

\* an Exec that goes on with the route after a PreRun has failed
ExecPreRunGoesOn ==
    /\ xpc = "prerun"
    /\ LET id == xroute[xi + 1]
       IN  /\ Cmds[id].PreRun
           /\ ~(Cmds[id].PreRunOnce /\ cstate[id].PreRunCalled)
           /\ cstate' = [cstate EXCEPT ![id].PreRunCalled = TRUE]
    /\ \E out \in {Nil, HookError("PreRun", xi)} :
         /\ trace' = Append(trace, Event("PreRun", xi, Nil, out))
         /\ xerr' = out
    /\ xpc' = AfterPreRun(xi)
    /\ xi' = IF xi + 1 < Len(xroute) THEN xi + 1 ELSE xi
    /\ UNCHANGED <<cells, xin, xroute, xres, decodeVars, parseVars, compVars, ruleVars, findVars, timeVars, idxVars>>

\* an Exec that calls the PreRun of route[i] whatever its state bits say
ExecPreRunAgain ==
    /\ xpc = "prerun"
    /\ LET id == xroute[xi + 1]
       IN  /\ Cmds[id].PreRun
           /\ cstate' = [cstate EXCEPT ![id].PreRunCalled = TRUE]
    /\ \E out \in {Nil, HookError("PreRun", xi)} :
         /\ trace' = Append(trace, Event("PreRun", xi, Nil, out))
         /\ xerr' = out
         /\ xpc' = IF out # Nil THEN "returned" ELSE AfterPreRun(xi)
         /\ xi' = IF out = Nil /\ xi + 1 < Len(xroute) THEN xi + 1 ELSE xi
    /\ UNCHANGED <<cells, xin, xroute, xres, decodeVars, parseVars, compVars, ruleVars, findVars, timeVars, idxVars>>

\* the call of the PreRun of route[i]
ExecPreRun ==
    /\ xpc = "prerun"
    /\ LET id == xroute[xi + 1]
       IN  /\ Cmds[id].PreRun
           /\ ~(Cmds[id].PreRunOnce /\ cstate[id].PreRunCalled)
           /\ cstate' = [cstate EXCEPT ![id].PreRunCalled = TRUE]
    /\ \E out \in {Nil, HookError("PreRun", xi)} :
         /\ trace' = Append(trace, Event("PreRun", xi, Nil, out))
         /\ xerr' = out
         /\ xpc' = IF out # Nil THEN "returned" ELSE AfterPreRun(xi)
         /\ xi' = IF out = Nil /\ xi + 1 < Len(xroute) THEN xi + 1 ELSE xi
    /\ UNCHANGED <<cells, xin, xroute, xres, decodeVars, parseVars, compVars, ruleVars, findVars, timeVars, idxVars>>

\* route[i] has no PreRun, or one that ran already and runs only once
ExecNoPreRun ==
    /\ xpc = "prerun"
    /\ LET id == xroute[xi + 1]
       IN  ~Cmds[id].PreRun \/ (Cmds[id].PreRunOnce /\ cstate[id].PreRunCalled)
    /\ trace' = Append(trace, Event("NoPreRun", xi, Nil, Nil))
    /\ xpc' = AfterPreRun(xi)
    /\ xi' = IF xi + 1 < Len(xroute) THEN xi + 1 ELSE xi
    /\ UNCHANGED <<cells, xin, xroute, xres, xerr, cstate, decodeVars, parseVars, compVars, ruleVars, findVars, timeVars, idxVars>>

\* the target has no Run
ExecNotRunnable ==
    /\ xpc = "run"
    /\ LET id == xroute[Len(xroute)]
           e  == ErrCmdNotRunnable(Cmds[id].names[1])
       IN  /\ ~Cmds[id].Run
           /\ xerr' = IF ~xin.opts.nil /\ xin.opts.HandleArgError = "ignore"
                      THEN Nil ELSE e
    /\ xpc' = "returned"
    /\ UNCHANGED <<cells, xin, xroute, xres, xi, trace, cstate, decodeVars, parseVars, compVars, ruleVars, findVars, timeVars, idxVars>>

\* an Exec that starts the PostRun hooks at the root
ExecRunPostFromRoot ==
    /\ xpc = "run"
    /\ Cmds[xroute[Len(xroute)]].Run
    /\ \E out \in {Nil, HookError("Run", Len(xroute) - 1)} :
         /\ trace' = Append(trace, Event("Run", Len(xroute) - 1, Nil, out))
         /\ xerr' = out
    /\ xpc' = IF ~xin.opts.nil /\ xin.opts.SkipPostRun THEN "returned" ELSE "postrun"
    /\ xi' = 0
    /\ UNCHANGED <<cells, xin, xroute, xres, cstate, decodeVars, parseVars, compVars, ruleVars, findVars, timeVars, idxVars>>

\* the call of the Run of the target
ExecRun ==
    /\ xpc = "run"
    /\ Cmds[xroute[Len(xroute)]].Run
    /\ \E out \in {Nil, HookError("Run", Len(xroute) - 1)} :
         /\ trace' = Append(trace, Event("Run", Len(xroute) - 1, Nil, out))
         /\ xerr' = out
    /\ xpc' = IF ~xin.opts.nil /\ xin.opts.SkipPostRun THEN "returned" ELSE "postrun"
    /\ xi' = Len(xroute) - 1
    /\ UNCHANGED <<cells, xin, xroute, xres, cstate, decodeVars, parseVars, compVars, ruleVars, findVars, timeVars, idxVars>>

\* an Exec that goes on with the PostRun hooks after one has failed
ExecPostRunGoesOn ==
    /\ xpc = "postrun"
    /\ xi >= 0
    /\ LET id == xroute[xi + 1]
       IN  /\ Cmds[id].PostRun
           /\ ~(Cmds[id].PostRunOnce /\ cstate[id].PostRunCalled)
           /\ cstate' = [cstate EXCEPT ![id].PostRunCalled = TRUE]
    /\ \E out \in {Nil, HookError("PostRun", xi)} :
         /\ trace' = Append(trace, Event("PostRun", xi, xerr, out))
         /\ xerr' = out
    /\ xi' = xi - 1
    /\ UNCHANGED <<cells, xpc, xin, xroute, xres, decodeVars, parseVars, compVars, ruleVars, findVars, timeVars, idxVars>>

\* the call of the PostRun of route[i], which is handed err
ExecPostRun ==
    /\ xpc = "postrun"
    /\ xi >= 0
    /\ LET id == xroute[xi + 1]
       IN  /\ Cmds[id].PostRun
           /\ ~(Cmds[id].PostRunOnce /\ cstate[id].PostRunCalled)
           /\ cstate' = [cstate EXCEPT ![id].PostRunCalled = TRUE]
    /\ \E out \in {Nil, HookError("PostRun", xi)} :
         /\ trace' = Append(trace, Event("PostRun", xi, xerr, out))
         /\ xerr' = out
         /\ xpc' = IF out # Nil THEN "returned" ELSE "postrun"
         /\ xi' = IF out # Nil THEN xi ELSE xi - 1
    /\ UNCHANGED <<cells, xin, xroute, xres, decodeVars, parseVars, compVars, ruleVars, findVars, timeVars, idxVars>>

\* route[i] has no PostRun, or one that ran already and runs only once
ExecNoPostRun ==
    /\ xpc = "postrun"
    /\ xi >= 0
    /\ LET id == xroute[xi + 1]
       IN  ~Cmds[id].PostRun \/ (Cmds[id].PostRunOnce /\ cstate[id].PostRunCalled)
    /\ trace' = Append(trace, Event("NoPostRun", xi, xerr, xerr))
    /\ xi' = xi - 1
    /\ UNCHANGED <<cells, xpc, xin, xroute, xres, xerr, cstate, decodeVars, parseVars, compVars, ruleVars, findVars, timeVars, idxVars>>

\* the return of Exec after the last PostRun
ExecReturn ==
    /\ xpc = "postrun"
    /\ xi < 0
    /\ xpc' = "returned"
    /\ UNCHANGED <<cells, xin, xroute, xres, xi, xerr, trace, cstate,
                   decodeVars, parseVars, compVars, ruleVars, findVars, timeVars, idxVars>>

\* the caller of Exec goes on with the returned error: the locals of the
\* call are gone, the flags and the state of the commands stay
ExecLeave ==
    /\ xpc = "returned"
    /\ xpc' = "idle"
    /\ xin' = [args |-> <<>>, opts |-> NilCmdOpts]
    /\ xroute' = <<>>
    /\ xres' = [posArgs |-> <<>>, dashArgs |-> <<>>]
    /\ xi' = 0
    /\ xerr' = Nil
    /\ trace' = <<>>
    /\ UNCHANGED <<cells, cstate, decodeVars, parseVars, compVars, ruleVars, findVars, timeVars, idxVars>>

Next ==
    \/ ExecStart
    \/ ExecDefaults
    \/ ExecRule
    \/ ExecPreRun
    \/ ExecNoPreRun
    \/ ExecNotRunnable
    \/ ExecRun
    \/ ExecPostRun
    \/ ExecNoPostRun
    \/ ExecReturn
    \/ ExecLeave

\* ------------------------------------------------------------------------
\* SpecComp: one completion request, either the complete operation of the
\* completion command (runOpComplete, the shell's generator and
\* generateCompletion with CompFmtZsh) or a call of CompTask.Init alone.
\* With a positive timeout AddDefault runs in a goroutine of its own beside
\* the runtime timer.
\* ------------------------------------------------------------------------

\* the calls of AddDefault made on one task
MaxAddDefaults == 2

\* the words of the command line being completed, after the executable
CompTokens == {<<"s","u","b">>, <<"o","d","d">>, <<"-","-","b","o">>,
               <<"-","-","s","t">>, <<>>,
               <<"-","s","=","v">>, <<"-","=","x">>,
               <<"-","-","s","t","=","v">>, <<"-","-","z","z","=","v">>}

\* the CmdOptions of the Exec that reaches the complete operation: with
\* DoNotSetFlags the flag --at stays unset and the rule of the operation
\* keeps Exec from running it
CompCallerOpts ==
    {NilCmdOpts,
     [NilCmdOpts EXCEPT !.nil = FALSE],
     [NilCmdOpts EXCEPT !.nil = FALSE, !.HandleArgError = "ignore"],
     [NilCmdOpts EXCEPT !.nil = FALSE, !.SkipPostRun = TRUE]}

\* the word a request completes
WordAt(words, at) ==
    IF Len(words) > 0 /\ at - 1 >= 0 /\ at - 1 < Len(words) - 1
    THEN words[at + 1] ELSE <<>>

\* the requests: the complete operation is asked to complete an empty word,
\* CompTask.Init alone is called at any position
CompRequests ==
    {r \in [entry : {"complete"}, opts : CompCallerOpts,
            words : {<< <<"a","p","p">> >> \o a : a \in SeqsUpTo(CompTokens, MaxArgs)},
            at : 0..(MaxArgs + 1), timeout : {0, 1}] :
        r.at <= Len(r.words) /\ WordAt(r.words, r.at) = <<>>}
    \cup
    {r \in [entry : {"Init"},
            opts : CompCallerOpts \cup {[NilCmdOpts EXCEPT !.nil = FALSE,
                                                           !.DoNotSetFlags = TRUE]},
            words : {<< <<"a","p","p">> >> \o a : a \in SeqsUpTo(CompTokens, MaxArgs)},
            at : 0..(MaxArgs + 1), timeout : {0}] :
        r.at <= Len(r.words)}

InitComp ==
    /\ cells = InitialCells
    /\ DecodeIdle
    /\ ParseIdle
    /\ ExecIdle
    /\ cpc = "start"
    /\ creq \in CompRequests
    /\ copts = SetupCopts
    /\ tsk = NoTask
    /\ apc = "none"
    /\ done = FALSE
    /\ timer = "none"
    /\ timerC = 0
    /\ cout = <<>>
    /\ cret = Nil
    /\ cadd = <<>>
    /\ RuleIdle
    /\ FindIdle
    /\ TimeIdle
    /\ IdxIdle

\* a call of CompTask.Init(root, opts, at, words...) on its own
TaskInitCall ==
    /\ cpc = "start"
    /\ creq.entry = "Init"
    /\ LET returned(r) ==
               /\ tsk' = r.tsk
               /\ cells' = Storage(r.st)
               /\ cpc' = IF r.panic THEN "panicked" ELSE "returned"
       IN  returned(TaskInit(tsk, "app", creq.opts, creq.at, creq.words,
                             Enter(cells)))
    /\ UNCHANGED <<creq, copts, apc, done, timer, timerC, cout, cret,
                   cadd, decodeVars, parseVars, execVars, ruleVars, findVars, timeVars, idxVars>>

\* a call of tsk.AddDefault() on the task CompTask.Init has initialised,
\* the first or a later one; the word to complete is empty
AddDefaultCall ==
    /\ cpc \in {"returned", "added"}
    /\ creq.entry = "Init"
    /\ tsk.ToComplete = <<>>
    /\ Len(cadd) < MaxAddDefaults
    /\ LET returned(r) ==
               /\ tsk' = r.tsk
               /\ cadd' = Append(cadd, r.added)
       IN  returned(AddDefault(tsk))
    /\ cpc' = "added"
    /\ UNCHANGED <<cells, creq, copts, apc, done, timer, timerC, cout, cret,
                   decodeVars, parseVars, execVars, ruleVars, findVars, timeVars, idxVars>>

\* runOpComplete up to the call of the shell's Run
RunOpComplete ==
    /\ cpc = "start"
    /\ creq.entry = "complete"
    /\ copts' = CopyOpts(copts, creq.opts)
    /\ cpc' = "init"
    /\ UNCHANGED <<cells, creq, tsk, apc, done, timer, timerC, cout, cret,
                   cadd, decodeVars, parseVars, execVars, ruleVars, findVars, timeVars, idxVars>>

\* generateCompletion: tsk.Init, then with a positive timeout the go
\* statement and time.NewTimer
GenInit ==
    /\ cpc = "init"
    /\ LET returned(r) ==
               /\ tsk' = r.tsk
               /\ cells' = Storage(r.st)
               /\ cpc' = IF r.panic THEN "panicked"
                         ELSE IF creq.timeout > 0 THEN "select" ELSE "inline"
               /\ apc' = IF ~r.panic /\ creq.timeout > 0 THEN "running" ELSE apc
               /\ timer' = IF ~r.panic /\ creq.timeout > 0 THEN "running" ELSE timer
       IN  returned(TaskInit(tsk, "app", copts, creq.at, creq.words, Enter(cells)))
    /\ UNCHANGED <<creq, copts, done, timerC, cout, cret,
                   cadd, decodeVars, parseVars, execVars, ruleVars, findVars, timeVars, idxVars>>

\* generateCompletion without a timeout: tsk.AddDefault() in the caller
GenAddDefault ==
    /\ cpc = "inline"
    /\ tsk' = AddDefault(tsk).tsk
    /\ cpc' = "write"
    /\ UNCHANGED <<cells, creq, copts, apc, done, timer, timerC, cout, cret,
                   cadd, decodeVars, parseVars, execVars, ruleVars, findVars, timeVars, idxVars>>

\* the goroutine: tsk.AddDefault()
AuxAddDefault ==
    /\ apc = "running"
    /\ tsk' = AddDefault(tsk).tsk
    /\ apc' = "added"
    /\ UNCHANGED <<cells, cpc, creq, copts, done, timer, timerC, cout, cret,
                   cadd, decodeVars, parseVars, execVars, ruleVars, findVars, timeVars, idxVars>>

\* the goroutine: the deferred close(done)
AuxClose ==
    /\ apc = "added"
    /\ done' = TRUE
    /\ apc' = "finished"
    /\ UNCHANGED <<cells, cpc, creq, copts, tsk, timer, timerC, cout, cret,
                   cadd, decodeVars, parseVars, execVars, ruleVars, findVars, timeVars, idxVars>>

\* the runtime: the timer expires and sends on timer.C
TimerFire ==
    /\ timer = "running"
    /\ timer' = "fired"
    /\ timerC' = 1
    /\ UNCHANGED <<cells, cpc, creq, copts, tsk, apc, done, cout, cret,
                   cadd, decodeVars, parseVars, execVars, ruleVars, findVars, timeVars, idxVars>>

\* select, case <-timer.C: return ErrTimeout{}
SelectTimer ==
    /\ cpc = "select"
    /\ timerC > 0
    /\ timerC' = timerC - 1
    /\ cret' = ErrTimeout
    /\ cpc' = "deferred"
    /\ UNCHANGED <<cells, creq, copts, tsk, apc, done, timer, cout,
                   cadd, decodeVars, parseVars, execVars, ruleVars, findVars, timeVars, idxVars>>

\* select, case <-done
SelectDone ==
    /\ cpc = "select"
    /\ done
    /\ cpc' = "write"
    /\ UNCHANGED <<cells, creq, copts, tsk, apc, done, timer, timerC, cout, cret,
                   cadd, decodeVars, parseVars, execVars, ruleVars, findVars, timeVars, idxVars>>

\* writeCompletions and the return statement
GenWrite ==
    /\ cpc = "write"
    /\ cout' = cout \o writeCompletions(tsk)
    /\ cret' = Nil
    /\ cpc' = IF creq.timeout > 0 THEN "deferred" ELSE "returned"
    /\ UNCHANGED <<cells, creq, copts, tsk, apc, done, timer, timerC,
                   cadd, decodeVars, parseVars, execVars, ruleVars, findVars, timeVars, idxVars>>

\* the deferred function: timer.Stop(). A running timer is stopped and Stop
\* reports true. Of an expired timer whose value has been received Stop
\* reports false. Of an expired timer whose value still waits in timer.C
\* Stop reports false, or, with the timers of Go 1.23, discards the value
\* and reports true.
DeferStop ==
    /\ cpc = "deferred"
    /\ \/ /\ timer = "running"
          /\ timer' = "stopped"
          /\ cpc' = "returned"
          /\ UNCHANGED timerC
       \/ /\ timer = "fired"
          /\ cpc' = "drain"
          /\ UNCHANGED <<timer, timerC>>
       \/ /\ timer = "fired"
          /\ timerC > 0
          /\ timerC' = 0
          /\ cpc' = "returned"
          /\ UNCHANGED timer
    /\ UNCHANGED <<cells, creq, copts, tsk, apc, done, cout, cret,
                   cadd, decodeVars, parseVars, execVars, ruleVars, findVars, timeVars, idxVars>>

\* the deferred function: <-timer.C, after which generateCompletion returns
DeferDrain ==
    /\ cpc = "drain"
    /\ timerC > 0
    /\ timerC' = timerC - 1
    /\ cpc' = "returned"
    /\ UNCHANGED <<cells, creq, copts, tsk, apc, done, timer, cout, cret,
                   cadd, decodeVars, parseVars, execVars, ruleVars, findVars, timeVars, idxVars>>

\* the steps of the calling goroutine that compute: tsk.Init and AddDefault
MainCompute ==
    TaskInitCall \/ AddDefaultCall \/ RunOpComplete \/ GenInit \/ GenAddDefault

\* the steps of the calling goroutine that wait, write and return
MainStep ==
    \/ SelectTimer
    \/ SelectDone
    \/ GenWrite
    \/ DeferStop
    \/ DeferDrain

\* the steps of the goroutine that runs AddDefault
AuxStep == AuxAddDefault \/ AuxClose

NextComp == MainCompute \/ MainStep \/ AuxStep \/ TimerFire

\* ------------------------------------------------------------------------
\* SpecRule: a caller enumerating the violations of a rule, NthEx(f, 0),
\* NthEx(f, 1), ... until not found, as Exec and the tests do
\* ------------------------------------------------------------------------

\* the longest key list of a rule that stands alone
MaxRuleKeys == 3

\* the longest key list of a rule inside a DependOn or a MultiRule
MaxNestedKeys == 2

\* the longest rule list of a MultiRule
MaxRules == 2

\* the flags the rules are about, and the names the rules call them by
RuleFlags == {"bo", "mb", "nu"}

RuleKeys == {FlagDefs[f].names[1] : f \in RuleFlags}

NestedKeys == {FlagDefs[f].names[1] : f \in {"bo", "mb"}}

\* AllOf, AllOrNone, OneOf and AnyOf over the key lists in K
KeyRules(K) == {AllOf(k) : k \in K} \cup {AllOrNone(k) : k \in K}
               \cup {OneOf(k) : k \in K} \cup {AnyOf(k) : k \in K}

NestedRules == KeyRules(SeqsUpTo(NestedKeys, MaxNestedKeys))

OneKeyRules == KeyRules({<<k>> : k \in NestedKeys})

\* the rules enumerated: the four key rules, DependOn and MultiRule over
\* them, a MultiRule holding a DependOn and a DependOn whose condition is a
\* MultiRule
Rules ==
    KeyRules(SeqsUpTo(RuleKeys, MaxRuleKeys))
    \cup {DependOn(i, t, e) : i \in KeyRules(SeqsUpTo(NestedKeys, 1)),
                              t \in NestedRules, e \in NestedRules}
    \cup {MultiRule(q) : q \in SeqsUpTo(NestedRules, MaxRules)}
    \cup {MultiRule(<<DependOn(i, t, e), r>>) :
            i \in OneKeyRules, t \in OneKeyRules, e \in OneKeyRules,
            r \in OneKeyRules}
    \cup {DependOn(MultiRule(<<i, j>>), t, e) :
            i \in OneKeyRules, j \in OneKeyRules, t \in OneKeyRules,
            e \in OneKeyRules}

InitRule ==
    /\ cells = InitialCells
    /\ DecodeIdle
    /\ ParseIdle
    /\ ExecIdle
    /\ CompIdle
    /\ RuleIdle
    /\ FindIdle
    /\ TimeIdle
    /\ IdxIdle

\* the caller takes a rule and an inspector: any of the rules, and any
\* assignment of changed / unchanged to the flags they are about
RuleStart ==
    /\ rpc = "idle"
    /\ cells' \in {[cells EXCEPT !.chg = [f \in FlagIds |-> f \in S]] :
                     S \in SUBSET RuleFlags}
    /\ rin' \in Rules
    /\ rpc' = "ready"
    /\ UNCHANGED <<rk, rout, decodeVars, parseVars, execVars, compVars, findVars, timeVars, idxVars>>

\* one round of the loop `for i := 0; ; i++ { v, ok := rule.NthEx(f, i) ... }`
RuleNext ==
    /\ rpc = "ready"
    /\ \E p \in {NthEx(rin, <<AllFlags>>, Enter(cells), rk)} :
         IF p.ok
         THEN /\ rout' = Append(rout, [key |-> p.key, reason |-> p.reason])
              /\ rk' = rk + 1
              /\ rpc' = rpc
         ELSE /\ rpc' = IF p.panic THEN "panicked" ELSE "done"
              /\ UNCHANGED <<rk, rout>>
    /\ UNCHANGED <<cells, rin, decodeVars, parseVars, execVars, compVars, findVars, timeVars, idxVars>>

\* ------------------------------------------------------------------------
\* SpecFind: Route.FindFlag called on a route of commands whose Flags and
\* LocalFlags are any FlagFinder
\* ------------------------------------------------------------------------

\* the longest route
MaxRoute == 3

\* the names the finders know; FindFlag is also asked for one more
FindNames == {"x", "y"}

Finders == {NilFinder} \cup {[nil |-> FALSE, names |-> S] : S \in SUBSET FindNames}

\* the commands of the routes: a Cmd with any finder as Flags and any as
\* LocalFlags
FindCmds == {[Flags |-> f, LocalFlags |-> l] : f \in Finders, l \in Finders}

\* c.Flags.FindFlag(name) and c.LocalFlags.FindFlag(name): the flag found is
\* the one this finder of this command holds under the name
CmdFindFlag(c, which, name) ==
    IF name \in c[which].names
    THEN [ok |-> TRUE, f |-> [cmd |-> c, which |-> which, name |-> name]]
    ELSE [ok |-> FALSE, f |-> NilFlag]

\* the loop walking the route from the root to the target
RECURSIVE routeFlagsFromRoot(_, _, _, _)
routeFlagsFromRoot(route, name, i, consulted) ==
    IF i < 1 THEN [ok |-> FALSE, f |-> NilFlag, consulted |-> consulted]
    ELSE IF route[Len(route) + 1 - i].Flags.nil
    THEN routeFlagsFromRoot(route, name, i - 1, consulted)
    ELSE
      With(CmdFindFlag(route[Len(route) + 1 - i], "Flags", name), LAMBDA r :
        IF r.ok
        THEN [ok |-> TRUE, f |-> r.f,
              consulted |-> Append(consulted, [at |-> Len(route) + 1 - i,
                                               which |-> "Flags"])]
        ELSE routeFlagsFromRoot(route, name, i - 1,
                                Append(consulted, [at |-> Len(route) + 1 - i,
                                                   which |-> "Flags"])))

\* the loop of Route.FindFlag, from route[i] down (the route counted from
\* 1); consulted is the finders asked so far, [at, which]
RECURSIVE routeFlagsFrom(_, _, _, _)
routeFlagsFrom(route, name, i, consulted) ==
    IF i < 1 THEN [ok |-> FALSE, f |-> NilFlag, consulted |-> consulted]
    ELSE IF route[i].Flags.nil THEN routeFlagsFrom(route, name, i - 1, consulted)
    ELSE
      With(CmdFindFlag(route[i], "Flags", name), LAMBDA r :
        IF r.ok
        THEN [ok |-> TRUE, f |-> r.f,
              consulted |-> Append(consulted, [at |-> i, which |-> "Flags"])]
        ELSE routeFlagsFrom(route, name, i - 1,
                            Append(consulted, [at |-> i, which |-> "Flags"])))

\* Route.FindFlag(name), the route not empty
RouteFindFlag(route, name) ==
    IF route[Len(route)].LocalFlags.nil
    THEN routeFlagsFrom(route, name, Len(route), <<>>)
    ELSE
      With(CmdFindFlag(route[Len(route)], "LocalFlags", name), LAMBDA r :
        IF r.ok
        THEN [ok |-> TRUE, f |-> r.f,
              consulted |-> <<[at |-> Len(route), which |-> "LocalFlags"]>>]
        ELSE routeFlagsFrom(route, name, Len(route),
                            <<[at |-> Len(route), which |-> "LocalFlags"]>>))

InitFind ==
    /\ cells = InitialCells
    /\ DecodeIdle
    /\ ParseIdle
    /\ ExecIdle
    /\ CompIdle
    /\ RuleIdle
    /\ fpc = "ready"
    /\ fin \in [route : SeqsUpTo(FindCmds, MaxRoute) \ {<<>>},
                name : FindNames \cup {"z"}]
    /\ fout = NoFound
    /\ TimeIdle
    /\ IdxIdle

FindFlagCall ==
    /\ fpc = "ready"
    /\ fout' = RouteFindFlag(fin.route, fin.name)
    /\ fpc' = "returned"
    /\ UNCHANGED <<cells, fin, decodeVars, parseVars, execVars, compVars, ruleVars, timeVars, idxVars>>

\* ------------------------------------------------------------------------
\* SpecTime: one call of ParseValue on a unix-epoch VP
\* ------------------------------------------------------------------------

UnixVPs == {"VPUnixSec", "VPUnixMilli", "VPUnixMicro", "VPUnixNano"}

\* the ParseOptions of the call: nil, StartTime left zero, StartTime set
StartTimes == {ZeroTime, Date(2024, 5, 6, 7, 8, 9, "Local")}

TimeOpts == [nil : {TRUE}, StartTime : {ZeroTime}]
            \cup [nil : {FALSE}, StartTime : StartTimes]

\* what time.Now() returns during the call
Nows == {Date(2026, 11, 4, 10, 11, 12, "Local"), Date(2026, 11, 5, 0, 0, 0, "Local")}

TimeArgs ==
    {<<"0","9",":","3","0">>,
     <<"2","0","2","5","-","0","2","-","0","3">>,
     <<"2","0","2","5","-","0","2","-","0","3","T","0","4",":","0","5",":","0","6">>,
     <<"0","9",":","3","0",":","1","5">>,
     <<"2","1">>,
     <<"x">>}

InitTime ==
    /\ cells = InitialCells
    /\ DecodeIdle
    /\ ParseIdle
    /\ ExecIdle
    /\ CompIdle
    /\ RuleIdle
    /\ FindIdle
    /\ tpc = "ready"
    /\ tin \in [vp : UnixVPs, opts : TimeOpts, now : Nows, arg : TimeArgs,
                set : BOOLEAN]
    /\ tout = NoUnixResult
    /\ IdxIdle

\* vp.ParseValue(opts, arg, &out, set) on an out that holds zero
UnixParseCall ==
    /\ tpc = "ready"
    /\ LET returned(r) ==
               /\ tout' = [err |-> r.err, out |-> r.out]
               /\ tpc' = IF r.panic THEN "panicked" ELSE "returned"
       IN  returned(UnixParseValue(tin.vp, tin.opts, tin.now, tin.arg,
                                   UnixZero, tin.set))
    /\ UNCHANGED <<cells, tin, decodeVars, parseVars, execVars, compVars,
                   ruleVars, findVars, idxVars>>

\* ------------------------------------------------------------------------
\* SpecIndex: an application working on one indexer, a MapIndexer it adds
\* flags to or a ReflectIndexer over a struct, calling FindFlag and NthFlag
\* in any order
\* ------------------------------------------------------------------------

\* the calls made on one indexer
MaxIdxCalls == 3

\* the highest index NthFlag is asked for
MaxNth == 2

Field(exported, tagged, names) ==
    [exported |-> exported, tagged |-> tagged, names |-> names]

\* the struct types: the one of the tests; an unexported field, a flag and
\* a field without tag; a flag of two long names; no flag at all; two
\* fields naming the same flag; a tag with an empty name
IdxStructs ==
    {<<Field(TRUE, TRUE, << <<"f","o">>, <<"f">> >>),
       Field(TRUE, TRUE, << <<"b","a">>, <<"b">> >>)>>,
     <<Field(FALSE, TRUE, << <<"b">> >>),
       Field(TRUE, TRUE, << <<"f","o">> >>),
       Field(TRUE, FALSE, <<>>)>>,
     <<Field(TRUE, TRUE, << <<"f","o">>, <<"b","a">> >>),
       Field(TRUE, TRUE, << <<"b">> >>)>>,
     <<Field(TRUE, FALSE, <<>>)>>,
     <<Field(TRUE, TRUE, << <<"f","o">> >>),
       Field(TRUE, TRUE, << <<"f","o">>, <<"f">> >>)>>,
     <<Field(TRUE, TRUE, << <<>>, <<"b","a">> >>)>>}

\* the names FindFlag is asked for, the last one being no flag of any struct
IdxNames == {<<"f","o">>, <<"f">>, <<"b","a">>, <<"b">>, <<"z","z">>}

\* the names handed to MapIndexer.Add
AddNames ==
    {<< <<"f","o">>, <<"f">> >>, << <<"b","a">>, <<"b">> >>,
     << <<"f","o">>, <<"b","a">>, <<"f">> >>, << <<"b">> >>, <<>>}

InitIndex ==
    /\ cells = InitialCells
    /\ DecodeIdle
    /\ ParseIdle
    /\ ExecIdle
    /\ CompIdle
    /\ RuleIdle
    /\ FindIdle
    /\ TimeIdle
    /\ ipc = "ready"
    /\ \/ iobj = "MapIndexer" /\ ityp = <<>>
       \/ iobj = "ReflectIndexer" /\ ityp \in IdxStructs
    /\ ridx = NewReflectIndexer
    /\ imade = [k \in 1..Len(ityp) |-> 0]
    /\ midx = NewMapIndexer
    /\ ilast = NoIdxCall
    /\ iseen = NoneSeen
    /\ icalls = 0

\* the bookkeeping of a call of op with arg that returned r
Called(op, arg, r, scanned, upTo) ==
    /\ ilast' = [op |-> op, arg |-> arg, ok |-> r.ok, ans |-> r.ans,
                 scanned |-> scanned,
                 upTo |-> IF upTo > ilast.upTo THEN upTo ELSE ilast.upTo]
    /\ iseen' = IF r.panic THEN iseen
                ELSE [iseen EXCEPT ![op] =
                        @ \cup {[arg |-> arg, ok |-> r.ok, ans |-> r.ans]}]
    /\ ipc' = IF r.panic THEN "panicked" ELSE "ready"
    /\ icalls' = icalls + 1

\* r.FindFlag(name) on the ReflectIndexer
ReflectFindFlagCall ==
    /\ ipc = "ready" /\ iobj = "ReflectIndexer" /\ icalls < MaxIdxCalls
    /\ \E name \in IdxNames :
         LET returned(r) ==
                 /\ ridx' = r.r
                 /\ imade' = r.made
                 /\ Called("FindFlag", name, r, r.upTo > 0, r.upTo)
         IN  returned(ReflectFindFlag(ridx, imade, ityp, name))
    /\ UNCHANGED <<cells, iobj, ityp, midx, decodeVars, parseVars, execVars,
                   compVars, ruleVars, findVars, timeVars>>

\* r.NthFlag(i) on the ReflectIndexer
ReflectNthFlagCall ==
    /\ ipc = "ready" /\ iobj = "ReflectIndexer" /\ icalls < MaxIdxCalls
    /\ \E i \in (-1)..MaxNth :
         LET returned(r) ==
                 /\ ridx' = r.r
                 /\ imade' = r.made
                 /\ Called("NthFlag", i, r, r.upTo > 0, r.upTo)
         IN  returned(ReflectNthFlag(ridx, imade, ityp, i))
    /\ UNCHANGED <<cells, iobj, ityp, midx, decodeVars, parseVars, execVars,
                   compVars, ruleVars, findVars, timeVars>>

\* m.Add(&Bool{}, names...) with a flag of its own
MapAddCall ==
    /\ ipc = "ready" /\ iobj = "MapIndexer" /\ icalls < MaxIdxCalls
    /\ \E names \in AddNames :
         LET returned(r) ==
                 /\ midx' = r.m
                 /\ ipc' = IF r.panic THEN "panicked" ELSE "ready"
                 /\ ilast' = [NoIdxCall EXCEPT !.op = "Add", !.arg = names,
                                               !.ok = ~r.panic]
         IN  returned(MapIndexerAdd(midx, [Field |-> -1, gen |-> icalls + 1], names))
    /\ icalls' = icalls + 1
    /\ UNCHANGED <<cells, iobj, ityp, ridx, imade, iseen, decodeVars, parseVars,
                   execVars, compVars, ruleVars, findVars, timeVars>>

\* m.FindFlag(name) on the MapIndexer
MapFindFlagCall ==
    /\ ipc = "ready" /\ iobj = "MapIndexer" /\ icalls < MaxIdxCalls
    /\ \E name \in IdxNames :
         Called("FindFlag", name, MapIndexerFindFlag(midx, name), FALSE, 0)
    /\ UNCHANGED <<cells, iobj, ityp, ridx, imade, midx, decodeVars, parseVars,
                   execVars, compVars, ruleVars, findVars, timeVars>>

\* m.NthFlag(i) on the MapIndexer
MapNthFlagCall ==
    /\ ipc = "ready" /\ iobj = "MapIndexer" /\ icalls < MaxIdxCalls
    /\ \E i \in (-1)..MaxNth :
         Called("NthFlag", i, MapIndexerNthFlag(midx, i), FALSE, 0)
    /\ UNCHANGED <<cells, iobj, ityp, ridx, imade, midx, decodeVars, parseVars,
                   execVars, compVars, ruleVars, findVars, timeVars>>

NextIndex ==
    \/ ReflectFindFlagCall
    \/ ReflectNthFlagCall
    \/ MapAddCall
    \/ MapFindFlagCall
    \/ MapNthFlagCall

vars ==
    <<cells, decodeVars, parseVars, execVars, compVars, ruleVars, findVars,
      timeVars, idxVars>>

Spec == Init /\ [][Next]_vars

SpecDecode == InitDecode /\ [][NextDecode]_vars

SpecParse == InitParse /\ [][NextParse]_vars

NextRule == RuleStart \/ RuleNext

SpecRule == InitRule /\ [][NextRule]_vars

SpecFind == InitFind /\ [][FindFlagCall]_vars

SpecTime == InitTime /\ [][UnixParseCall]_vars

SpecIndex == InitIndex /\ [][NextIndex]_vars

\* the scheduler lets a goroutine that can wait, write, return or close its
\* channel do so, and a running timer expires; AddDefault runs the
\* completion code of the application, which is given no bound
SpecComp ==
    /\ InitComp
    /\ [][NextComp]_vars
    /\ WF_vars(MainStep)
    /\ WF_vars(AuxClose)
    /\ WF_vars(TimerFire)

\* C6: for every flag with the set-at-most-once bit, reflect-bound flags
\* tagged `once` included: after one Decode with set=true has succeeded,
\* every later Decode with set=true fails with ErrFlagSetAtMostOnce and
\* leaves the stored value as it was.
C6_SetAtMostOnce ==
    [][\A f \in FlagIds :
         (/\ FlagDefs[f].once
          /\ f \in okSet
          /\ calls' = calls + 1
          /\ last'.op = "Decode" /\ last'.f = f /\ last'.set)
         => (/\ last'.err = "ErrFlagSetAtMostOnce"
             /\ cells'.val[f] = cells.val[f])]_vars

\* C7: a Decode or ParseValue call with set=false changes neither the cell
\* nor the value-changed bit of any flag, whatever the VP; a parser run with
\* setFlagValue=false changes no flag storage, and a parser run with
\* setFlagValue=true changes only cells of flags it decoded with set=true.
C7_SetFalseChangesNothing ==
    [][calls' = calls + 1 =>
         /\ (~last'.set => cells' = cells)
         /\ \A f \in FlagIds :
              (cells'.val[f] # cells.val[f] \/ cells'.chg[f] # cells.chg[f])
              => f \in last'.dec]_vars

\* a parser run with setFlagValue=false that validated the value of a flag,
\* on storage that earlier calls had already changed
C7_Witness ==
    /\ last.op = "Parse" /\ ~last.set /\ last.err = "nil"
    /\ last.seen # {}
    /\ cells # InitialCells

\* C10: ParseFlags and ParseFlagsLowLevel never panic, whatever the argument
\* vector: malformed input ends in a returned error or a normal return.
C10_ParserNeverPanics == ppc # "panicked"

\* ------------------------------------------------------------------------
\* the claims about Cmd.Exec, stated on the history of the call in progress
\* ------------------------------------------------------------------------

IsHook(e) == e.ev \in {"PreRun", "Run", "PostRun"}

\* the hook invocations of the call, in order
Hooks == SelectSeq(trace, IsHook)

\* the place of a hook invocation in the sequence PreRun of route[0] ..
\* route[n-1], Run, PostRun of route[n-1] .. route[0]
HookRank(e) ==
    CASE e.ev = "PreRun"  -> e.i
      [] e.ev = "Run"     -> Len(xroute)
      [] e.ev = "PostRun" -> 2 * Len(xroute) - e.i

\* the step k of the history is preceded by a step ev of route[i]
Before(k, ev, i) == \E j \in 1..(k - 1) : trace[j].ev = ev /\ trace[j].i = i

\* C1: the hook invocations of an Exec are PreRun of route[0], .., route[n-1]
\* in that order, then Run of the target, then PostRun of route[n-1], ..,
\* route[0] in that order; a command is passed over only when it has no
\* such hook (or has one that runs once and ran already); no PostRun is
\* invoked before Run has returned.
C1_HookOrder ==
    /\ \A k \in 1..(Len(Hooks) - 1) : HookRank(Hooks[k]) < HookRank(Hooks[k + 1])
    /\ \A k \in 1..Len(trace) :
         LET e == trace[k]
             c == Cmds[xroute[e.i + 1]]
         IN  /\ e.ev = "PreRun" =>
                  /\ c.PreRun
                  /\ \A j \in 0..(e.i - 1) : Before(k, "PreRun", j) \/ Before(k, "NoPreRun", j)
             /\ e.ev = "NoPreRun" => (~c.PreRun \/ c.PreRunOnce)
             /\ e.ev = "Run" =>
                  /\ c.Run /\ e.i = Len(xroute) - 1
                  /\ \A j \in 0..(Len(xroute) - 1) :
                       Before(k, "PreRun", j) \/ Before(k, "NoPreRun", j)
             /\ e.ev = "PostRun" =>
                  /\ c.PostRun
                  /\ \E j \in 1..(k - 1) : trace[j].ev = "Run"
                  /\ \A j \in (e.i + 1)..(Len(xroute) - 1) :
                       Before(k, "PostRun", j) \/ Before(k, "NoPostRun", j)
             /\ e.ev = "NoPostRun" => (~c.PostRun \/ c.PostRunOnce)
    /\ (/\ xpc = "returned"
        /\ \E k \in 1..Len(Hooks) : Hooks[k].ev = "Run"
        /\ \A k \in 1..Len(Hooks) : Hooks[k].ev = "PostRun" => Hooks[k].out = Nil
        /\ (xin.opts.nil \/ ~xin.opts.SkipPostRun))
       => \A j \in 0..(Len(xroute) - 1) :
            \E k \in 1..Len(trace) :
               trace[k].ev \in {"PostRun", "NoPostRun"} /\ trace[k].i = j

\* an Exec over a route of three commands that has returned after all its
\* hooks: two PreRun, Run, two PostRun
C1_Witness ==
    /\ xpc = "returned"
    /\ Len(xroute) = 3
    /\ Len(Hooks) = 5

\* C2: for each command c of the route, the default values of c's flags
\* are assigned before c's FlagRule is evaluated, and the rule is evaluated
\* before c's PreRun is invoked; every hook of c finds the flags of c that
\* have a default value already assigned.
C2_DefaultsRulePreRun ==
    \A k \in 1..Len(trace) :
      LET e == trace[k]
          c == Cmds[xroute[e.i + 1]]
      IN  /\ e.ev = "Rule" => Before(k, "Defaults", e.i)
          /\ e.ev \in {"PreRun", "NoPreRun"} =>
               /\ Before(k, "Defaults", e.i)
               /\ c.FlagRule # NoRule => Before(k, "Rule", e.i)
          /\ IsHook(e) =>
               \A f \in Range(c.Flags) \cup Range(c.LocalFlags) :
                  FlagDefs[f].def # <<>> => cells.chg[f]

\* the PreRun of a command with a rule and with a flag that has a default
\* value has been invoked
C2_Witness ==
    \E k \in 1..Len(trace) :
       /\ trace[k].ev = "PreRun"
       /\ xroute[trace[k].i + 1] = "sub"
       /\ cells.val["in"] = 7

\* C3: when the PreRun of route[i] returns an error e, Exec returns e, and
\* invokes no PreRun of a deeper command, no Run and no PostRun.
C3_PreRunErrorAborts ==
    \A k \in 1..Len(trace) :
      (trace[k].ev = "PreRun" /\ trace[k].out # Nil)
      => /\ k = Len(trace)
         /\ xpc = "returned"
         /\ xerr = trace[k].out

\* the PreRun of the root has failed in an Exec whose route is longer
C3_Witness ==
    /\ xpc = "returned"
    /\ Len(xroute) = 3
    /\ Len(trace) > 0
    /\ trace[Len(trace)].ev = "PreRun" /\ trace[Len(trace)].i = 0
    /\ xerr = HookError("PreRun", 0)

\* C4: every PostRun is handed the latest error of the dispatch, which for
\* the first PostRun invoked is the error Run returned; when a PostRun
\* returns an error, no further PostRun is invoked and Exec returns that
\* error.
C4_PostRunError ==
    \A k \in 1..Len(Hooks) :
      Hooks[k].ev = "PostRun"
      => /\ k > 1
         /\ Hooks[k].in = Hooks[k - 1].out
         /\ Hooks[k].out # Nil =>
              /\ k = Len(Hooks)
              /\ xpc = "returned"
              /\ xerr = Hooks[k].out

\* Run has failed, the first PostRun invoked was handed that error and has
\* failed too, with a PostRun of the root still to come
C4_Witness ==
    /\ xpc = "returned"
    /\ Len(Hooks) >= 2
    /\ Hooks[Len(Hooks)].ev = "PostRun" /\ Hooks[Len(Hooks)].i = 1
    /\ Hooks[Len(Hooks)].in = HookError("Run", 2)
    /\ xerr = HookError("PostRun", 1)

\* C5: when the FlagRule of a command of the route has a violation as Exec
\* reaches the command, Exec returns a FlagViolation with the key and the
\* reason of the rule's violation 0, and invokes neither the PreRun of that
\* command or of a deeper one, nor Run, nor any PostRun.
C5_RuleViolation ==
    \A i \in 0..(Len(xroute) - 1) :
      LET c == Cmds[xroute[i + 1]]
          reached == \E k \in 1..Len(trace) :
                        trace[k].i = i /\ trace[k].ev \in {"Rule", "PreRun", "NoPreRun"}
          violated(v) ==
              (v.ok /\ reached)
              => /\ xpc = "returned"
                 /\ xerr = FlagViolation(v.key, v.reason)
                 /\ trace[Len(trace)].ev = "Rule" /\ trace[Len(trace)].i = i
                 /\ \A k \in 1..Len(trace) :
                      IsHook(trace[k]) => (trace[k].ev = "PreRun" /\ trace[k].i < i)
      IN  violated(NthEx(c.FlagRule, RouteFinder(xroute), cells, 0))

\* Exec has returned the violation of a rule of which one key was set and
\* one was not, after the PreRun of the root
C5_Witness ==
    /\ xpc = "returned"
    /\ xerr.kind = "FlagViolation" /\ xerr.value = "PartialAllOf"
    /\ Len(Hooks) = 1


\* ------------------------------------------------------------------------
\* the claims about completion
\* ------------------------------------------------------------------------

\* C8: a completion request never mutates flag storage: after the complete
\* operation, and after CompTask.Init alone, every flag has the value and the
\* value-changed bit it had before the request, whatever the CmdOptions of
\* the caller are. Every request starts from the initial storage.
C8_CompletionKeepsFlags ==
    creq.entry \in {"complete", "Init"} =>
        \A f \in FlagIds : /\ cells.val[f] = InitialCells.val[f]
                           /\ cells.chg[f] = InitialCells.chg[f]

\* C9: with a positive timeout, when the select of generateCompletion takes
\* the branch of the timer while the goroutine that runs AddDefault has not
\* finished, generateCompletion returns ErrTimeout to its caller without
\* waiting for that goroutine, and nothing the goroutine produced is written
\* to the output.
C9_TimeoutReturnsErrTimeout ==
    /\ [](cret = ErrTimeout => cout = <<>>)
    /\ [](cret = ErrTimeout /\ apc # "finished"
            => <>(cpc = "returned" /\ cret = ErrTimeout))

\* ------------------------------------------------------------------------
\* the claims about ResolveTarget and the rest of Exec
\* ------------------------------------------------------------------------

\* C11: Cmd.Exec and Cmd.ResolveTarget report every failure as a returned
\* error value and never panic, whatever the FlagRule of the commands on the
\* route is, a FlagRule with a key that names no flag the route finds
\* included.
C11_ExecNeverPanics == xpc # "panicked"

\* ResolveTarget has returned to Exec without an error: xroute and xres are
\* what it returned for xin.args
ResolvedOk == xpc = "defaults" \/ (xpc # "idle" /\ trace # <<>>)

\* the index (from 0) of the first standalone dash of args, -1 without one
FirstDash(args) ==
    IF \E k \in 1..Len(args) : args[k] = Dash
    THEN (CHOOSE k \in 1..Len(args) :
            args[k] = Dash /\ \A j \in 1..(k - 1) : args[j] # Dash) - 1
    ELSE -1

\* C12: when the args hold a standalone dash that the parser reaches, at
\* index d, ResolveTarget returns dashArgs = args[d+1:], and these are the
\* dashArgs Exec hands to the hooks, whichever command is the target and
\* whether or not the commands on the route have children. (No token of
\* ExecTokens makes a flag take the next arg as its value, so a resolution
\* without error has reached the first dash.)
C12_DashArgs ==
    (ResolvedOk /\ FirstDash(xin.args) >= 0)
        => xres.dashArgs = Drop(xin.args, FirstDash(xin.args) + 1)

\* an arg the parser takes as positional (no token of ExecTokens makes a
\* flag take the next arg as its value)
IsPosArg(a) == Len(a) = 0 \/ a[1] # "-" \/ Len(a) = 1

\* the positional args before the first standalone dash, in order
PosBeforeDash(args) ==
    SelectSeq(SubSeq(args, 1, IF FirstDash(args) < 0 THEN Len(args)
                              ELSE FirstDash(args)),
              IsPosArg)

\* the descent the claim describes: one level for every positional that names
\* a child of the command reached, the rest being the positional args
RECURSIVE Descent(_, _)
Descent(route, pos) ==
    IF pos # <<>> /\ \E k \in DOMAIN Cmds[route[Len(route)]].Children :
                       Head(pos) \in Range(Cmds[Cmds[route[Len(route)]].Children[k]].names)
    THEN Descent(Append(route,
                        Cmds[route[Len(route)]].Children[
                            CHOOSE k \in DOMAIN Cmds[route[Len(route)]].Children :
                              /\ Head(pos) \in Range(Cmds[Cmds[route[Len(route)]].Children[k]].names)
                              /\ \A j \in 1..(k - 1) :
                                   Head(pos) \notin Range(Cmds[Cmds[route[Len(route)]].Children[j]].names)]),
                 Tail(pos))
    ELSE [route |-> route, posArgs |-> pos]

\* C13: ResolveTarget descends from the root one level each time the first
\* positional met at the current command is a name of one of its children;
\* the first positional that names no child and every later positional
\* before the dash are returned in order as posArgs of the command reached,
\* the last entry of the returned route, whose first entry is the root.
C13_RouteAndPosArgs ==
    ResolvedOk =>
        /\ xroute = Descent(<<"app">>, PosBeforeDash(xin.args)).route
        /\ xres.posArgs = Descent(<<"app">>, PosBeforeDash(xin.args)).posArgs
        /\ xroute[1] = "app"

\* ResolveTarget went down two levels, the first by the second name of sub,
\* and returned the positional that names no child of leaf
C13_Witness ==
    /\ ResolvedOk
    /\ xin.args = << <<"s">>, <<"l","e","a","f">>, <<"x">> >>
    /\ xroute = <<"app", "sub", "leaf">>
    /\ xres.posArgs = << <<"x">> >>

\* ------------------------------------------------------------------------
\* the claims about the parser
\* ------------------------------------------------------------------------

\* every rune of s is the shorthand of a flag
RECURSIVE AllShorthands(_)
AllShorthands(s) ==
    \/ s = <<>>
    \/ /\ FinderFindFlag(<<AllFlags>>, SubSeq(s, 1, RuneWidth(s))).ok
       /\ AllShorthands(Drop(s, RuneWidth(s)))

\* a is a cluster of shorthands of flags, with or without `=v`
IsCluster(a) ==
    /\ Len(a) >= 2 /\ a[1] = "-" /\ a[2] \notin {"-", "="}
    /\ AllShorthands(Cut(Drop(a, 1), "=").before)

\* the long flag of f without a value: "--" and the first name of f
LongForm(f) == Dash \o FlagDefs[f].names[1]

\* what the claim says of the cluster whose text from the current shorthand
\* on is s, c being the cut of the cluster at `=`: [stop, mid, args, st],
\* where stop tells that the cluster has failed, mid names the shorthand in
\* the middle that `=v` was refused for, args are the args still to parse
\* and st is the storage the cluster leaves. The final shorthand without
\* `=v` is handed on as the long flag of the same flag.
RECURSIVE ClusterSays(_, _, _, _)
ClusterSays(s, c, args, st) ==
    With(FinderFindFlag(<<AllFlags>>, SubSeq(s, 1, RuneWidth(s))).f, LAMBDA f :
      IF RuneWidth(s) = Len(s)
      THEN IF c.found
           THEN With(Decode(f, st, c.after, TRUE), LAMBDA d :
                  [stop |-> d.err # Nil, mid |-> <<>>, args |-> Tail(args), st |-> d.st])
           ELSE [stop |-> FALSE, mid |-> <<>>,
                 args |-> <<LongForm(f)>> \o Tail(args), st |-> st]
      ELSE IF ImplyValue(f).ok
      THEN With(Decode(f, st, ImplyValue(f).v, TRUE), LAMBDA d :
             IF d.err # Nil
             THEN [stop |-> TRUE, mid |-> <<>>, args |-> Tail(args), st |-> d.st]
             ELSE ClusterSays(Drop(s, RuneWidth(s)), c, args, d.st))
      ELSE IF c.found
      THEN [stop |-> TRUE, mid |-> SubSeq(s, 1, RuneWidth(s)), args |-> Tail(args),
            st |-> st]
      ELSE With(Decode(f, st, Drop(s, RuneWidth(s)), TRUE), LAMBDA d :
             [stop |-> d.err # Nil, mid |-> <<>>, args |-> Tail(args), st |-> d.st]))

\* the outcome of ParseFlags(args, flags, opts) the claim gives for args that
\* begin with a cluster, the storage being the initial one: the cluster as
\* ClusterSays has it, then the args still to parse unless the cluster has
\* failed and the error is not ignored
ClusterOutcome(args, opts) ==
    With(ClusterSays(Cut(Drop(args[1], 1), "=").before, Cut(Drop(args[1], 1), "="),
                     args, Enter(InitialCells)),
         LAMBDA a :
      IF a.stop /\ (opts.nil \/ opts.handler # "ignore")
      THEN [ok |-> FALSE, mid |-> a.mid, posArgs |-> <<>>, dashArgs |-> <<>>,
            cells |-> Storage(a.st)]
      ELSE With(ParseFlags(a.args, <<AllFlags>>, opts, a.st), LAMBDA r :
             [ok |-> r.err = Nil, mid |-> <<>>, posArgs |-> r.posArgs,
              dashArgs |-> r.dashArgs, cells |-> Storage(r.st)]))

NamedAlone(a) ==
    {f \in FlagIds :
       \E k \in DOMAIN FlagDefs[f].names :
          \/ a = Dash \o FlagDefs[f].names[k]
          \/ /\ a = <<"-">> \o FlagDefs[f].names[k]
             /\ RuneWidth(FlagDefs[f].names[k]) = Len(FlagDefs[f].names[k])}

\* v starts with a hyphen, is not the dash, and is a valid value of f
HyphenValue(f, v) ==
    /\ Len(v) >= 1 /\ v[1] = "-" /\ v # Dash
    /\ ParseValue(FlagDefs[f].vp, v, InitialCells.val[f], FALSE).err = Nil

\* C15: when a flag with an implied value is given without `=value`, as a
\* long flag or as the final shorthand of a cluster, and the next arg starts
\* with a hyphen and is a valid value of the flag, parsing reports
\* ErrAmbiguousArgs with the name of the flag and that arg (unless the error
\* handler ignores it), and the value and the value-changed bit of the flag
\* stay as they were; the same value given as --flag=value is stored without
\* an error.
C15_AmbiguousArgs ==
    (ppc = "returned" /\ pout.fn = "ParseFlags") =>
      /\ \A f \in FlagIds :
           (/\ Len(pin.args) = 2
            /\ f \in NamedAlone(pin.args[1])
            /\ ~IsHelpArg(pin.opts, pin.args[1])
            /\ ImplyValue(f).ok
            /\ HyphenValue(f, pin.args[2]))
           => /\ cells.val[f] = InitialCells.val[f]
              /\ cells.chg[f] = InitialCells.chg[f]
              /\ (pin.opts.nil \/ pin.opts.handler # "ignore")
                   => /\ pout.err.kind = "ErrAmbiguousArgs"
                      /\ pin.args[1] \in {Dash \o pout.err.name, <<"-">> \o pout.err.name}
                      /\ pout.err.value = pin.args[2]
      /\ \A f \in FlagIds, k \in 1..2 :
           (/\ Len(pin.args) = 1
            /\ k \in DOMAIN FlagDefs[f].names
            /\ Cut(Drop(pin.args[1], 2), "=").found
            /\ pin.args[1] = Dash \o FlagDefs[f].names[k] \o <<"=">>
                               \o Cut(Drop(pin.args[1], 2), "=").after
            /\ ImplyValue(f).ok
            /\ HyphenValue(f, Cut(Drop(pin.args[1], 2), "=").after))
           => /\ pout.err = Nil
              /\ cells.chg[f]
              /\ cells.val[f] = ParseValue(FlagDefs[f].vp,
                                           Cut(Drop(pin.args[1], 2), "=").after,
                                           InitialCells.val[f], TRUE).out

\* ParseFlags has met --nu followed by -1, a value of the sum flag nu, and
\* has returned ErrAmbiguousArgs
C15_Witness ==
    /\ ppc = "returned" /\ pout.fn = "ParseFlags"
    /\ pin.args = << <<"-", "-", "n", "u">>, <<"-", "1">> >>
    /\ pout.err.kind = "ErrAmbiguousArgs"
    /\ cells = InitialCells

\* C16: when HandleParseError is configured and returns nil for the error
\* raised at args[i], the parser goes on with args[i+1]: no later arg is
\* skipped; when it returns an error, parsing stops there and returns the
\* error.
C16_HandlerContinues ==
    (ppc = "returned" /\ pout.fn = "ParseFlags" /\ ~pin.opts.nil) =>
      /\ pin.opts.handler = "ignore"
           => \A i \in pout.errAt : i + 1 < Len(pin.args) => (i + 1) \in pout.at
      /\ pin.opts.handler = "reraise"
           => \A i \in pout.errAt : /\ pout.err # Nil
                                    /\ \A j \in pout.at : j <= i

\* the index (from 0) of the first help arg of args before the first
\* standalone dash, -1 without one
HelpAt(args) ==
    IF \E k \in 1..Len(args) :
         args[k] \in DefaultHelpArgs /\ \A j \in 1..k : args[j] # Dash
    THEN (CHOOSE k \in 1..Len(args) :
            /\ args[k] \in DefaultHelpArgs
            /\ \A j \in 1..k : args[j] # Dash
            /\ \A j \in 1..(k - 1) : args[j] \notin DefaultHelpArgs) - 1
    ELSE -1

\* the command the resolution is at when it meets the help arg: the one the
\* positionals before the help arg lead to
HelpCmd(args) ==
    With(Descent(<<"app">>, SelectSeq(SubSeq(args, 1, HelpAt(args)), IsPosArg)).route,
         LAMBDA route : route[Len(route)])

\* the error Exec is to return for the help arg: by the handler of the
\* command, else by the one of the options
HelpError(args, opts) ==
    With(IF Cmds[HelpCmd(args)].Help # "none" THEN Cmds[HelpCmd(args)].Help
         ELSE IF opts.nil THEN "none" ELSE opts.HandleHelpRequest,
         LAMBDA handler :
      IF handler = "none"
      THEN ErrHelpPending(args[HelpAt(args) + 1], HelpAt(args))
      ELSE IF handler = "ok" THEN ErrHelpHandled ELSE ErrHelpFailed)

\* C17: when the args hold a help arg before any standalone dash, Exec stops
\* at it without invoking any PreRun, Run or PostRun: unless an earlier arg
\* has made the parser fail, Exec returns ErrHelpPending when neither the
\* command reached nor the options have a help handler, ErrHelpHandled when
\* the handler returns nil, and the error of the handler otherwise. (No
\* token of ExecTokens makes a flag take the next arg as its value.)
C17_HelpStopsExec ==
    (xpc # "idle" /\ HelpAt(xin.args) >= 0) =>
        /\ xpc = "returned"
        /\ trace = <<>>
        /\ \/ xerr = HelpError(xin.args, xin.opts)
           \/ /\ xerr.kind \notin {"nil", "ErrHelpPending", "ErrHelpHandled", "ErrHelpFailed"}
              /\ xerr.at >= 0 /\ xerr.at < HelpAt(xin.args)

\* Exec of sub help with nil options has returned ErrHelpHandled: the help
\* handler of sub has returned nil
C17_Witness ==
    /\ xpc = "returned"
    /\ xin.args = << <<"s","u","b">>, <<"h","e","l","p">> >>
    /\ xin.opts.nil
    /\ xerr = ErrHelpHandled
    /\ trace = <<>>

\* the flags of the indexers of command c
FlagsOf(c) == Range(Cmds[c].LocalFlags) \cup Range(Cmds[c].Flags)

\* the values the default texts of the flags stand for: "d", "7" and
\* "[1, 2]", the last one element by element
DefaultValueOf == [st |-> <<"d">>, in |-> 7, sl |-> <<1, 2>>]

\* the value --in=3 gives the flag in
CommandLineValueOf == [in |-> 3]

\* C18: during Exec the default text of a flag is decoded into the flag only
\* if its value-changed bit is not set at that moment: the step that assigns
\* the defaults of a command gives every flag of the command that has a
\* default and is not changed the value of its default, a default written as
\* a list element by element, and leaves every other flag as it is; a flag
\* set from the command line keeps its parsed value; and when the PreRun of
\* a command runs every flag of the command that has a default is changed and
\* holds its default or the value from the command line.
C18_DefaultsOnlyIfUnchanged ==
    /\ [][xpc = "defaults" =>
            \A f \in FlagIds :
              IF f \in FlagsOf(xroute[xi + 1]) /\ FlagDefs[f].def # <<>> /\ ~cells.chg[f]
              THEN cells'.chg[f] /\ cells'.val[f] = DefaultValueOf[f]
              ELSE cells'.chg[f] = cells.chg[f] /\ cells'.val[f] = cells.val[f]]_vars
    /\ []((/\ ResolvedOk
           /\ xin.opts.nil \/ ~xin.opts.DoNotSetFlags
           /\ \E k \in 1..Len(xin.args) :
                /\ xin.args[k] = <<"-","-","i","n","=","3">>
                /\ \A j \in 1..k : xin.args[j] # Dash)
          => cells.chg["in"] /\ cells.val["in"] = CommandLineValueOf["in"])
    /\ [](\A k \in 1..Len(trace) :
            trace[k].ev = "PreRun" =>
              \A f \in FlagsOf(xroute[trace[k].i + 1]) :
                FlagDefs[f].def # <<>> =>
                  /\ cells.chg[f]
                  /\ \/ cells.val[f] = DefaultValueOf[f]
                     \/ f \in DOMAIN CommandLineValueOf
                        /\ cells.val[f] = CommandLineValueOf[f])

\* the PreRun of sub has run in the Exec of sub --in=3: the flag in holds 3
\* and not its default 7, the flag st of the root holds its default
C18_Witness ==
    /\ xin.args = << <<"s","u","b">>, <<"-","-","i","n","=","3">> >>
    /\ \E k \in 1..Len(trace) : trace[k].ev = "PreRun" /\ trace[k].i = 1
    /\ cells.val["in"] = 3
    /\ cells.val["st"] = <<"d">> /\ cells.chg["st"]

\* ------------------------------------------------------------------------
\* the claim about the rules
\* ------------------------------------------------------------------------

\* the key names a flag whose value-changed bit is set
KeyChanged(key) == \E f \in FlagIds : key \in Range(FlagDefs[f].names) /\ cells.chg[f]

\* the unchanged and the changed keys of the list, in the order of the list
KeysUnchanged(keys) == SelectSeq(keys, LAMBDA k : ~KeyChanged(k))

KeysChanged(keys) == SelectSeq(keys, KeyChanged)

\* every key of the list reported for one reason
Reported(keys, reason) == [n \in 1..Len(keys) |-> [key |-> keys[n], reason |-> reason]]

\* the violations of a rule by the meaning of its kind
RECURSIVE RuleSays(_)
RuleSays(rule) ==
    CASE rule.type = "AllOf" ->
           Reported(KeysUnchanged(rule.keys),
                    IF KeysChanged(rule.keys) = <<>> THEN "EmptyAllOf" ELSE "PartialAllOf")
      [] rule.type = "AllOrNone" ->
           IF KeysChanged(rule.keys) # <<>> /\ KeysUnchanged(rule.keys) # <<>>
           THEN Reported(KeysUnchanged(rule.keys), "PartialAllOrNone")
           ELSE <<>>
      [] rule.type = "OneOf" ->
           IF KeysChanged(rule.keys) = <<>> THEN Reported(rule.keys, "EmptyOneOf")
           ELSE Reported(Tail(KeysChanged(rule.keys)), "ExcessiveOneOf")
      [] rule.type = "AnyOf" ->
           IF KeysChanged(rule.keys) = <<>> THEN Reported(rule.keys, "EmptyAnyOf")
           ELSE <<>>
      [] rule.type = "DependOn" ->
           IF RuleSays(rule.If) = <<>> THEN RuleSays(rule.Then) ELSE RuleSays(rule.Else)
      [] rule.type = "MultiRule" ->
           IF rule.rules = <<>> THEN <<>>
           ELSE RuleSays(Head(rule.rules)) \o RuleSays(MultiRule(Tail(rule.rules)))

\* C19: for every rule built from AllOf, AllOrNone, OneOf, AnyOf, DependOn
\* and MultiRule and every assignment of changed / unchanged to its keys,
\* the calls NthEx(f, 0), NthEx(f, 1), ... reach not found after finitely
\* many results, and the violations returned are those of the meaning of the
\* rule: AllOf every unchanged key (empty-all-of when no key is changed,
\* else partial-all-of), AllOrNone the unchanged keys iff some key is changed
\* and some is not, OneOf every key when none is changed and the second and
\* later changed keys otherwise, AnyOf every key iff none is changed,
\* DependOn those of Then when If has none and else those of Else, MultiRule
\* those of its rules one after the other.  The call with i = 0, 1, ... returns
\* the violation of that place as long as there is one, and not found at
\* the first i past the last one.
C19_NthExEnumeration ==
    /\ [](rpc = "ready" => /\ Len(rout) = rk
                            /\ rk <= Len(RuleSays(rin))
                            /\ rout = SubSeq(RuleSays(rin), 1, rk))
    /\ [][rpc = "ready" =>
            /\ rk < Len(RuleSays(rin)) =>
                 rpc' = "ready" /\ rk' = rk + 1 /\ rout' = Append(rout, RuleSays(rin)[rk + 1])
            /\ rk = Len(RuleSays(rin)) => rpc' = "done" /\ rout' = rout]_vars
    /\ [](rpc = "done" => rout = RuleSays(rin))
    /\ [](rpc # "panicked")

\* the enumeration of a MultiRule of a DependOn and one more rule has ended
\* after two violations of different reasons, the first one from the Else
\* branch
C19_Witness ==
    /\ rpc = "done"
    /\ rin.type = "MultiRule" /\ Len(rin.rules) = 2
    /\ rin.rules[1].type = "DependOn"
    /\ RuleSays(rin.rules[1].If) # <<>>
    /\ Len(rout) = 2 /\ rout[1].reason # rout[2].reason

\* ------------------------------------------------------------------------
\* the claim about Route.FindFlag
\* ------------------------------------------------------------------------

\* the k + 1 finders of the route of the call in the order of the claim: the
\* LocalFlags of the target, then the Flags of route[k-1] down to route[0]
\* (the route counted from 1 here)
FindOrder ==
    [n \in 1..(Len(fin.route) + 1) |->
       IF n = 1 THEN [at |-> Len(fin.route), which |-> "LocalFlags"]
       ELSE [at |-> Len(fin.route) + 2 - n, which |-> "Flags"]]

\* the finder is not nil
FinderThere(e) == ~fin.route[e.at][e.which].nil

\* the finder has a flag of the name asked for
FinderHolds(e) == fin.name \in fin.route[e.at][e.which].names

\* the flag the finder holds under the name asked for
FlagHeld(e) == [cmd |-> fin.route[e.at], which |-> e.which, name |-> fin.name]

\* C20: for a route of length k >= 1, Route.FindFlag(name) consults at most
\* k + 1 finders in the fixed order target's LocalFlags, Flags of route[k-1],
\* route[k-2], ..., route[0], and returns the first hit; the LocalFlags of a
\* command other than the target are never consulted, and a flag of a
\* command nearer the target shadows a flag of the same name of an ancestor.
C20_FindFlagOrder ==
    fpc = "returned" =>
      /\ Len(fout.consulted) <= Len(fin.route) + 1
      /\ \E n \in 0..Len(FindOrder) :
           fout.consulted = SelectSeq(SubSeq(FindOrder, 1, n), FinderThere)
      /\ fout.ok <=> \E n \in DOMAIN FindOrder : FinderHolds(FindOrder[n])
      /\ fout.ok =>
           /\ fout.consulted # <<>>
           /\ FinderHolds(fout.consulted[Len(fout.consulted)])
           /\ fout.f = FlagHeld(fout.consulted[Len(fout.consulted)])
           /\ \A m \in 1..(Len(fout.consulted) - 1) : ~FinderHolds(fout.consulted[m])
      /\ ~fout.ok => /\ fout.f = NilFlag
                     /\ fout.consulted = SelectSeq(FindOrder, FinderThere)
      /\ \A m \in DOMAIN fout.consulted :
           fout.consulted[m].which = "LocalFlags" => fout.consulted[m].at = Len(fin.route)
      /\ \A n \in DOMAIN FindOrder :
           (/\ FinderHolds(FindOrder[n])
            /\ \A m \in 1..(n - 1) : ~FinderHolds(FindOrder[m]))
           => fout.f = FlagHeld(FindOrder[n])

\* a route of three commands: the target's LocalFlags and Flags are there
\* and do not know the name, the Flags of the command above it do, and so do
\* the Flags and the LocalFlags of the root, which is another command
C20_Witness ==
    /\ fpc = "returned"
    /\ Len(fin.route) = 3
    /\ fout.ok
    /\ fout.consulted = <<[at |-> 3, which |-> "LocalFlags"], [at |-> 3, which |-> "Flags"],
                          [at |-> 2, which |-> "Flags"]>>
    /\ fout.f.cmd = fin.route[2]
    /\ fin.route[1] # fin.route[2]
    /\ fin.name \in fin.route[1].Flags.names
    /\ fin.name \in fin.route[1].LocalFlags.names

\* ------------------------------------------------------------------------
\* the claims about the hooks of Exec
\* ------------------------------------------------------------------------

\* this step of Exec invokes the hook (PreRun or PostRun) of command id
Invokes(hook, id) ==
    /\ Len(trace') = Len(trace) + 1
    /\ trace'[Len(trace')].ev = hook
    /\ xroute[trace'[Len(trace')].i + 1] = id

\* C23: a command whose PreRunOnce (PostRunOnce) state bit is set has its
\* PreRun (PostRun) hook invoked at most once per dispatch and at most once
\* over any sequence of Exec calls with the command on the route: a hook of
\* such a command is invoked only while its Called bit is clear, the
\* invocation sets the bit, and the bit once set stays set.
C23_HookAtMostOnce ==
    [][\A id \in CmdIds :
         /\ (Cmds[id].PreRunOnce /\ Invokes("PreRun", id))
            => ~cstate[id].PreRunCalled /\ cstate'[id].PreRunCalled
         /\ (Cmds[id].PostRunOnce /\ Invokes("PostRun", id))
            => ~cstate[id].PostRunCalled /\ cstate'[id].PostRunCalled
         /\ cstate[id].PreRunCalled => cstate'[id].PreRunCalled
         /\ cstate[id].PostRunCalled => cstate'[id].PostRunCalled]_vars

\* a later Exec has passed over the PreRun of a command with PreRunOnce and
\* over the PostRun of a command with PostRunOnce, both called by an
\* earlier Exec
C23_Witness ==
    /\ xpc = "returned"
    /\ \E k \in DOMAIN trace :
         /\ trace[k].ev = "NoPreRun"
         /\ Cmds[xroute[trace[k].i + 1]].PreRun
         /\ Cmds[xroute[trace[k].i + 1]].PreRunOnce
    /\ \E k \in DOMAIN trace :
         /\ trace[k].ev = "NoPostRun"
         /\ Cmds[xroute[trace[k].i + 1]].PostRun
         /\ Cmds[xroute[trace[k].i + 1]].PostRunOnce

\* C28: a Run error is never silently dropped: when the Run of the target
\* has returned a non-nil error e and no PostRun hook has returned a non-nil
\* error (or there is no PostRun hook, or SkipPostRun is set), Exec returns e.
C28_RunErrorReturned ==
    xpc = "returned" =>
      \A k \in DOMAIN trace :
        (/\ trace[k].ev = "Run"
         /\ trace[k].out # Nil
         /\ \A j \in DOMAIN trace : trace[j].ev = "PostRun" => trace[j].out = Nil)
        => xerr = trace[k].out

\* ------------------------------------------------------------------------
\* the claim about a Decode that sets
\* ------------------------------------------------------------------------

\* this step is Decode(opts, name, arg, true) on flag f
DecodesSetting(f, arg) ==
    /\ calls' = calls + 1
    /\ last'.op = "Decode" /\ last'.f = f /\ last'.set
    /\ last'.err = Decode(f, Enter(cells), arg, TRUE).err.kind
    /\ cells' = Storage(Decode(f, Enter(cells), arg, TRUE).st)

\* C29: no silent failure of a set: Decode with set=true on an argument that
\* is not a valid representation for the type of the flag (one for which
\* Decode with set=false returns an error) returns a non-nil error, stores
\* nothing and does not set the value-changed bit, for generic and for
\* reflection-bound flags, scalar, slice and map alike.
C29_NoSilentSetFailure ==
    [][\A f \in FlagIds, arg \in DecodeArgs :
         (/\ DecodesSetting(f, arg)
          /\ Decode(f, Enter(cells), arg, FALSE).err # Nil)
         => /\ last'.err # "nil"
            /\ cells'.val[f] = cells.val[f]
            /\ cells'.chg[f] = cells.chg[f]]_vars

\* ------------------------------------------------------------------------
\* the claim about the tokens ParseFlags accounts for
\* ------------------------------------------------------------------------

\* the number of tokens of args before the first standalone dash
BeforeDash(args) == IF FirstDash(args) < 0 THEN Len(args) ELSE FirstDash(args)

\* the indices (from 0) before the dash at which the parser took a
\* positional arg, in order
PosTaken(args, at) ==
    SelectSeq([k \in 1..BeforeDash(args) |-> k - 1],
              LAMBDA i : i \in at /\ IsPosArg(args[i + 1]))

\* C30: when ParseFlags returns a nil error every token of args has been
\* accounted for: each token before the first standalone dash was decoded as
\* a flag (the parser came to it) or as the value of the flag before it (the
\* parser passed over it for that flag), or appears in posArgs in argument order,
\* and each token after the dash appears in dashArgs; no token is left
\* unparsed without an error, also when opts is nil.
C30_EveryTokenAccounted ==
    (ppc = "returned" /\ pout.fn = "ParseFlags" /\ pout.err = Nil) =>
      /\ \A i \in 0..(BeforeDash(pin.args) - 1) :
           \/ i \in pout.at
           \/ i \in pout.skipAt
      /\ pout.posArgs = [k \in 1..Len(PosTaken(pin.args, pout.at)) |->
                           pin.args[PosTaken(pin.args, pout.at)[k] + 1]]
      /\ FirstDash(pin.args) >= 0 =>
           pout.dashArgs = SubSeq(pin.args, FirstDash(pin.args) + 2, Len(pin.args))

\* ------------------------------------------------------------------------
\* the claims about completion
\* ------------------------------------------------------------------------

\* the route of the task knows a flag of this name: in the LocalFlags of its
\* target or in the Flags of one of its commands
KnownOnRoute(route, name) ==
    \E f \in FlagIds :
      /\ name \in Range(FlagDefs[f].names)
      /\ \/ f \in Range(Cmds[route[Len(route)]].LocalFlags)
         \/ \E k \in DOMAIN route : f \in Range(Cmds[route[k]].Flags)

\* the part of the token before its first `=`
BeforeEquals(w) == SubSeq(w, 1, IndexByteFrom(w, "=", 1))

\* the want bits the classification table gives the token under the cursor;
\* {} for a token the table has no row for
WantByTable(route, w) ==
    IF w = <<>> \/ w = <<"-">> \/ w = Dash THEN {"HasFlagNames", "HasSubcmds"}
    ELSE IF w[1] # "-" THEN {"HasSubcmds"}
    ELSE IF IndexByteFrom(w, "=", 1) < 0 THEN {}
    ELSE IF Len(w) >= 2 /\ w[2] = "-"
    THEN IF KnownOnRoute(route, Drop(BeforeEquals(w), 2))
         THEN {"HasFlagValues"} ELSE {"HasSubcmds"}
    ELSE IF BeforeEquals(w) # <<"-">>
            /\ KnownOnRoute(route, <<BeforeEquals(w)[Len(BeforeEquals(w))]>>)
    THEN {"HasFlagValues"} ELSE {"HasSubcmds"}

\* C25: for every token under the cursor CompTask.Init returns normally and
\* sets the want bits as the classification table says: the empty token, `-`
\* and `--` give flag names and subcommands, a token that does not start
\* with `-` gives subcommands, `--long=...` gives flag values for that flag
\* when long is a known flag and subcommands otherwise, `-xyz=...` gives flag
\* values when its last shorthand names a known flag and subcommands
\* otherwise.  The table is not asked of a task that completes the value
\* of the flag before the cursor, which ResolveTarget found without one.
C25_InitClassifies ==
    (creq.entry = "Init" /\ cpc \in {"returned", "panicked"}) =>
      /\ cpc = "returned"
      /\ (/\ WantByTable(tsk.Route, WordAt(creq.words, creq.at)) # {}
          /\ ~(tsk.want = {"HasFlagValues"} /\ tsk.FlagValuePrefix = <<>>))
         => tsk.want = WantByTable(tsk.Route, WordAt(creq.words, creq.at))


\* ------------------------------------------------------------------------
\* the claims about AddDefault and the output of the complete operation
\* ------------------------------------------------------------------------

\* the step is the second call of AddDefault on a task CompTask.Init has
\* initialised
SecondAddDefault ==
    creq.entry = "Init" /\ Len(cadd) = 1 /\ Len(cadd') = 2

\* C24: on a freshly initialised CompTask the second call of AddDefault
\* returns 0 and leaves the result list as the first call left it, for every
\* want Init has set and every Completion of the target command (nil,
\* CompActionDisable, CompActionStatic).
C24_AddDefaultIdempotent ==
    [][SecondAddDefault => (cadd'[2] = 0 /\ tsk'.result = tsk.result)]_vars

\* the lines of options writeCompletions can write, without the newline
OptionLines == {<<>>, <<"nospace">>, <<"nosort">>, <<"nospace", ",", "nosort">>}

\* out is a line of options followed by lines of suggestions
OptionsThenLines(out) ==
    \E o \in OptionLines :
      /\ Len(out) > Len(o)
      /\ SubSeq(out, 1, Len(o) + 1) = o \o <<"\n">>
      /\ out[Len(out)] = "\n"

\* C26: a run of the complete operation that returns no error has written
\* one line of options (nospace, nosort, possibly none) and after it zero or
\* more lines of suggestions, whatever the state of the task at the end.
C26_CompleteWritesOptionsLine ==
    (creq.entry = "complete" /\ cpc = "returned" /\ cret = Nil)
      => OptionsThenLines(cout)

\* ------------------------------------------------------------------------
\* the claim about the unix-epoch VPs
\* ------------------------------------------------------------------------

\* the time the missing parts are to come from: opts.StartTime when opts is
\* not nil and StartTime is set, the current time otherwise
BaseTime ==
    IF ~tin.opts.nil /\ ~IsZero(tin.opts.StartTime) THEN tin.opts.StartTime
    ELSE tin.now

\* the arg names a clock and no date
ClockOnly == Len(tin.arg) \in {2, 5, 8} /\ parseTime(tin.arg, BaseTime).err = Nil

\* C27: ParseValue of each of the four unix-epoch VPs returns without a
\* panic, also on nil options, and a value it stores for an arg without a
\* date has the date and location of opts.StartTime when opts is not nil and
\* StartTime is set, and of the current time otherwise.
C27_UnixEpochBaseTime ==
    (tpc \in {"returned", "panicked"}) =>
      /\ tpc = "returned"
      /\ tout.err = parseTime(tin.arg, BaseTime).err
      /\ (tin.set /\ ClockOnly) =>
           /\ tout.out.unit # "none"
           /\ tout.out.of.y = BaseTime.y
           /\ tout.out.of.mt = BaseTime.mt
           /\ tout.out.of.d = BaseTime.d
           /\ tout.out.of.loc = BaseTime.loc

\* ------------------------------------------------------------------------
\* the claims about the indexers
\* ------------------------------------------------------------------------

\* the fields of the struct that are flags, in declaration order
TaggedFields == SelectSeq(ityp, LAMBDA f : f.exported /\ f.tagged)

\* the names of a tag that are not empty
NamesOf(f) == {f.names[k] : k \in {j \in DOMAIN f.names : Len(f.names[j]) # 0}}

\* the names under which the flag of index i is registered in the indexer
RegisteredFor(i) ==
    IF iobj = "MapIndexer" THEN {n \in DOMAIN midx.n2i : midx.n2i[n] = i}
    ELSE IF i >= 0 /\ i < Len(TaggedFields) THEN NamesOf(TaggedFields[i + 1])
    ELSE {}

\* the names under which any flag is registered in the indexer
Registered ==
    IF iobj = "MapIndexer" THEN DOMAIN midx.n2i
    ELSE UNION {NamesOf(TaggedFields[k]) : k \in DOMAIN TaggedFields}

\* C21: FindFlag(N) succeeds for every name N a flag is registered under
\* (MapIndexer.Add with any number of names, a ReflectIndexer tag with any
\* number of names between pipes), and the FlagInfo NthFlag yields for a flag
\* has every name the flag is registered under as its Name or its Shorthand.
C21_RegisteredNameInInfo ==
    (ipc = "ready") =>
      /\ (ilast.op = "FindFlag" /\ ilast.arg \in Registered) => ilast.ok
      /\ (ilast.op = "NthFlag" /\ ilast.ok) =>
           \A n \in RegisteredFor(ilast.arg) :
             n = ilast.ans.Name \/ n = ilast.ans.Shorthand

\* every call with the same argument got the same answer
SameAnswers ==
    \A op \in {"FindFlag", "NthFlag"} :
      \A x, y \in iseen[op] : x.arg = y.arg => x = y

\* the FlagInfo of a field: its first shorthand and its first other name
RECURSIVE InfoFrom(_, _)
InfoFrom(names, k) ==
    IF k = 0 THEN NoInfo
    ELSE IF Len(names[k]) = 0 THEN InfoFrom(names, k - 1)
    ELSE InfoWith(InfoFrom(names, k - 1), names[k])

\* what NthFlag answered is the i-th flag field in declaration order, or
\* not found when there is no such field
NthInOrder ==
    \A x \in iseen.NthFlag :
      IF x.arg >= 0 /\ x.arg < Len(TaggedFields)
      THEN x.ok /\ x.ans = InfoFrom(TaggedFields[x.arg + 1].names,
                                    Len(TaggedFields[x.arg + 1].names))
      ELSE ~x.ok

\* every field has been looked at by the scans of the calls so far
FullyScanned == ilast.upTo = Len(ityp)

\* the call just made asked for a name no field has or an index no field has
MissAsked ==
    \/ ilast.op = "FindFlag" /\ ilast.arg \notin Registered
    \/ ilast.op = "NthFlag" /\ (ilast.arg < 0 \/ ilast.arg >= Len(TaggedFields))

\* C22: over any sequence of FindFlag and NthFlag calls on one
\* ReflectIndexer every FindFlag of a name returns the same Flag, NthFlag(i)
\* returns the FlagInfo of the i-th tagged exported field, no field has its
\* flag made twice, and once every field has been scanned a lookup of an
\* unknown name or of an index out of range returns not found without
\* another scan.
C22_ReflectCacheStable ==
    /\ [](iobj = "ReflectIndexer"
            => SameAnswers /\ NthInOrder /\ \A k \in DOMAIN imade : imade[k] <= 1)
    /\ [][(iobj = "ReflectIndexer" /\ FullyScanned /\ icalls' = icalls + 1
             /\ MissAsked')
            => (ipc' = "ready" /\ ~ilast'.ok /\ ~ilast'.scanned)]_vars
====
